---- MODULE Spec2Model ----
(***************************************************************************)
(* Playback engine of the MIDI player: the transport state (state.rs), the *)
(* scheduler thread (midi.rs, play_midi), the note mapper (midi.rs) and    *)
(* the key-simulation layer (keyboard.rs).                                 *)
(*                                                                         *)
(* Representation.  Durations are integers in milliseconds.  The f64       *)
(* second values of AppState (current_position, seek_offset,               *)
(* total_duration) are held as integers in microseconds, so that the       *)
(* conversion `(seek_offset * 1000.0) as u64` truncates as it does in the  *)
(* code.  Time advances in quanta of TickMs; a sleep ends at the first     *)
(* quantum boundary at or after its duration, and a thread whose sleep has *)
(* ended (or that is not sleeping) takes its steps before the clock        *)
(* advances again.                                                         *)
(***************************************************************************)
EXTENDS Integers, Sequences, FiniteSets, TLC

\* ------------------------------------------------------------------ bounds
\* Scheduler threads alive at once
MaxThreads == 2
\* AppState methods the commands of one run may call in all
MaxCalls == 5
\* Longest time, in ms, a pass is followed after its start
MaxWallMs == 150
\* The time quantum, in ms
TickMs == 50

\* ------------------------------------------------------- program constants
ROOT_NOTE == 60
I32_MAX == 2147483647
UsPerMs == 1000
PollSleepMs == 1
PausePollMs == 50
\* Fault variant of StopWaitMs: stop_playback waits no longer than one poll sleep
StopWaitOnePoll == PollSleepMs
StopWaitMs == 100
LoopSleepMs == 500

LOW_KEYS == <<"z", "x", "c", "v", "b", "n", "m">>
MID_KEYS == <<"a", "s", "d", "f", "g", "h", "j">>
HIGH_KEYS == <<"q", "w", "e", "r", "t", "y", "u">>
SCALE_INTERVALS == <<0, 2, 4, 5, 7, 9, 11>>
PENTA_INTERVALS == <<0, 2, 4, 7, 9>>
PENTA_KEY_IDX == <<0, 1, 2, 4, 5>>

ALL_KEYS == LOW_KEYS \o MID_KEYS \o HIGH_KEYS
Keys == {ALL_KEYS[i] : i \in 1..Len(ALL_KEYS)}

\* NoteMode, as its u8 discriminant
Closest == 0
Quantize == 1
TransposeOnly == 2
Pentatonic == 3
Chromatic == 4
Raw == 5

\* NoteMode::from(u8): unknown values fall back to Closest
NoteModeFrom(v) == IF v \in 0..5 THEN v ELSE Closest

\* ------------------------------------------------------ integer arithmetic
Abs(x) == IF x < 0 THEN -x ELSE x
Min2(a, b) == IF a < b THEN a ELSE b
Max2(a, b) == IF a > b THEN a ELSE b
\* Rust's `/` and `%` on i32 truncate toward zero
RustDiv(a, b) == IF (a >= 0) = (b > 0) THEN Abs(a) \div Abs(b) ELSE -(Abs(a) \div Abs(b))
RustRem(a, b) == a - b * RustDiv(a, b)
\* Fault variant of Clamp: only the lower bound is applied
ClampLowOnly(x, lo, hi) == IF x < lo THEN lo ELSE x
\* Ord::clamp
Clamp(x, lo, hi) == IF x < lo THEN lo ELSE IF x > hi THEN hi ELSE x
\* the values of an i8, the argument type of set_octave_shift
I8 == -128 .. 127

\* ------------------------------------------------------------- note mapper
get_instrument_notes ==
    [i \in 1..7 |-> ROOT_NOTE - 12 + SCALE_INTERVALS[i]] \o
    [i \in 1..7 |-> ROOT_NOTE + SCALE_INTERVALS[i]] \o
    [i \in 1..7 |-> ROOT_NOTE + 12 + SCALE_INTERVALS[i]]

InstLo == get_instrument_notes[1]
InstHi == get_instrument_notes[Len(get_instrument_notes)]

RECURSIVE RaiseInto(_)
RaiseInto(n) == IF n < InstLo THEN RaiseInto(n + 12) ELSE n
RECURSIVE LowerInto(_)
LowerInto(n) == IF n > InstHi THEN LowerInto(n - 12) ELSE n

\* Fault variant of normalize_into_range: the second loop is missing, a note
\* above the range stays where it is
normalize_raise_only(note) == RaiseInto(note)

normalize_into_range(note) == LowerInto(RaiseInto(note))

\* The scan `for (i, inst_note) ... if dist < best_dist` over the 21 notes:
\* the first index (1-based here) of minimal distance wins.
RECURSIVE NearestScan(_, _, _, _)
NearestScan(target, i, best_idx, best_dist) ==
    IF i > Len(get_instrument_notes) THEN [idx |-> best_idx, dist |-> best_dist]
    ELSE LET dist == Abs(get_instrument_notes[i] - target)
         IN  IF dist < best_dist
             THEN NearestScan(target, i + 1, i, dist)
             ELSE NearestScan(target, i + 1, best_idx, best_dist)

note_to_key(note, transpose) ==
    LET target == normalize_into_range(note + transpose)
    IN  ALL_KEYS[NearestScan(target, 1, 1, Abs(get_instrument_notes[1] - target)).idx]

\* Fault variant of note_to_key_quantize: the target is not folded into the range
note_to_key_quantize_unfolded(note, transpose) ==
    ALL_KEYS[NearestScan(note + transpose, 1, 1, I32_MAX).idx]

note_to_key_quantize(note, transpose) ==
    LET normalized == LowerInto(RaiseInto(note + transpose))
    IN  ALL_KEYS[NearestScan(normalized, 1, 1, I32_MAX).idx]

RowKey(octave, key_idx) ==
    IF octave = 0 THEN LOW_KEYS[key_idx + 1]
    ELSE IF octave = 1 THEN MID_KEYS[key_idx + 1]
    ELSE HIGH_KEYS[key_idx + 1]

note_to_key_transpose(note, transpose) ==
    LET target == note + transpose
        semitone == RustRem(RustRem(target - ROOT_NOTE, 12) + 12, 12)
        octave_offset == RustDiv(target - ROOT_NOTE, 12)
        octave == Clamp(1 + octave_offset, 0, 2)
        key_idx == RustDiv(semitone * 7, 12)
    IN  RowKey(octave, key_idx)

OctaveOf(normalized) ==
    IF normalized < ROOT_NOTE THEN 0
    ELSE IF normalized < ROOT_NOTE + 12 THEN 1
    ELSE 2

\* Fault variant of PentaScan: the distance does not wrap around the octave
RECURSIVE PentaScanNoWrap(_, _, _, _)
PentaScanNoWrap(semitone, i, best_penta_idx, best_dist) ==
    IF i > Len(PENTA_INTERVALS) THEN best_penta_idx
    ELSE LET dist == Abs(PENTA_INTERVALS[i] - semitone)
         IN  IF dist < best_dist
             THEN PentaScanNoWrap(semitone, i + 1, i, dist)
             ELSE PentaScanNoWrap(semitone, i + 1, best_penta_idx, best_dist)

RECURSIVE PentaScan(_, _, _, _)
PentaScan(semitone, i, best_penta_idx, best_dist) ==
    IF i > Len(PENTA_INTERVALS) THEN best_penta_idx
    ELSE LET interval == PENTA_INTERVALS[i]
             dist == Min2(Min2(Abs(interval - semitone), Abs(interval - semitone + 12)),
                          Abs(interval - semitone - 12))
         IN  IF dist < best_dist
             THEN PentaScan(semitone, i + 1, i, dist)
             ELSE PentaScan(semitone, i + 1, best_penta_idx, best_dist)

note_to_key_pentatonic(note, transpose) ==
    LET normalized == LowerInto(RaiseInto(note + transpose))
        semitone == RustRem(RustRem(normalized - ROOT_NOTE, 12) + 12, 12)
        key_idx == PENTA_KEY_IDX[PentaScan(semitone, 1, 1, I32_MAX)]
    IN  RowKey(OctaveOf(normalized), key_idx)

\* Fault variant of ChromaticSlot: Eb and Bb go to the natural below them
ChromaticSlotLower(semitone_in_octave) ==
    CASE semitone_in_octave \in {0, 1} -> 0
      [] semitone_in_octave \in {2, 3} -> 1
      [] semitone_in_octave = 4 -> 2
      [] semitone_in_octave \in {5, 6} -> 3
      [] semitone_in_octave \in {7, 8} -> 4
      [] semitone_in_octave \in {9, 10} -> 5
      [] semitone_in_octave = 11 -> 6
      [] OTHER -> 0

ChromaticSlot(semitone_in_octave) ==
    CASE semitone_in_octave = 0 -> 0
      [] semitone_in_octave = 1 -> 0
      [] semitone_in_octave = 2 -> 1
      [] semitone_in_octave = 3 -> 2
      [] semitone_in_octave = 4 -> 2
      [] semitone_in_octave = 5 -> 3
      [] semitone_in_octave = 6 -> 3
      [] semitone_in_octave = 7 -> 4
      [] semitone_in_octave = 8 -> 4
      [] semitone_in_octave = 9 -> 5
      [] semitone_in_octave = 10 -> 6
      [] semitone_in_octave = 11 -> 6
      [] OTHER -> 0

note_to_key_chromatic(note, transpose) ==
    LET normalized == LowerInto(RaiseInto(note + transpose))
        semitone_in_octave == RustRem(RustRem(normalized - ROOT_NOTE, 12) + 12, 12)
    IN  RowKey(OctaveOf(normalized), ChromaticSlot(semitone_in_octave))

\* Fault variant of raw_key_idx: the sign is dropped instead of wrapped
raw_key_idx_abs(note) == Abs(RustRem(note, 21))

\* `((note % 21) + 21) % 21`
raw_key_idx(note) == RustRem(RustRem(note, 21) + 21, 21)

note_to_key_raw(note) == ALL_KEYS[raw_key_idx(note) + 1]

\* Fault variant of KeyForEvent: Raw is given the auto-detected transpose too
key_for_event_raw_transposed(current_mode, note, transpose, octave_shift_now) ==
    LET shift_semitones == octave_shift_now * 12
        total_transpose == transpose + shift_semitones
    IN  CASE current_mode = Closest -> note_to_key(note, total_transpose)
          [] current_mode = Quantize -> note_to_key_quantize(note, total_transpose)
          [] current_mode = TransposeOnly -> note_to_key_transpose(note, total_transpose)
          [] current_mode = Pentatonic -> note_to_key_pentatonic(note, total_transpose)
          [] current_mode = Chromatic -> note_to_key_chromatic(note, total_transpose)
          [] OTHER -> note_to_key_raw(note + total_transpose)

\* The `match current_mode` of play_midi: the key of one event.
KeyForEvent(current_mode, note, transpose, octave_shift_now) ==
    LET shift_semitones == octave_shift_now * 12
        total_transpose == transpose + shift_semitones
    IN  CASE current_mode = Closest -> note_to_key(note, total_transpose)
          [] current_mode = Quantize -> note_to_key_quantize(note, total_transpose)
          [] current_mode = TransposeOnly -> note_to_key_transpose(note, total_transpose)
          [] current_mode = Pentatonic -> note_to_key_pentatonic(note, total_transpose)
          [] current_mode = Chromatic -> note_to_key_chromatic(note, total_transpose)
          [] OTHER -> note_to_key_raw(note + shift_semitones)

\* ------------------------------------------------------ transpose heuristic
RECURSIVE MinDistance(_, _, _)
MinDistance(normalized, i, min_distance) ==
    IF i > Len(get_instrument_notes) THEN min_distance
    ELSE LET distance == Abs(get_instrument_notes[i] - normalized)
         IN  MinDistance(normalized, i + 1,
                         IF distance < min_distance THEN distance ELSE min_distance)

RECURSIVE TransposeScore(_, _, _)
TransposeScore(events, transpose, i) ==
    IF i > Len(events) THEN 0
    ELSE (IF events[i].event_type = "NoteOn"
          THEN MinDistance(normalize_into_range(events[i].note + transpose), 1, I32_MAX)
          ELSE 0) + TransposeScore(events, transpose, i + 1)

\* Fault variant of BestTransposeScan: `<=`, the last minimal candidate wins
RECURSIVE BestTransposeScanLast(_, _, _, _)
BestTransposeScanLast(events, transpose, best_transpose, best_score) ==
    IF transpose > 12 THEN best_transpose
    ELSE LET score == TransposeScore(events, transpose, 1)
         IN  IF score <= best_score
             THEN BestTransposeScanLast(events, transpose + 1, transpose, score)
             ELSE BestTransposeScanLast(events, transpose + 1, best_transpose, best_score)

RECURSIVE BestTransposeScan(_, _, _, _)
BestTransposeScan(events, transpose, best_transpose, best_score) ==
    IF transpose > 12 THEN best_transpose
    ELSE LET score == TransposeScore(events, transpose, 1)
         IN  IF score < best_score
             THEN BestTransposeScan(events, transpose + 1, transpose, score)
             ELSE BestTransposeScan(events, transpose + 1, best_transpose, best_score)

detect_best_transpose(events) == BestTransposeScan(events, -12, 0, I32_MAX)

\* ------------------------------------------------------------------ scores
\* TimedEvent
Ev(time_ms, event_type, note) ==
    [time_ms |-> time_ms, event_type |-> event_type, note |-> note]

\* The event lists of the files on disk, as load_midi produces them (sorted by
\* time_ms).  a.mid: two overlapping notes of different pitch and a NoteOn
\* that is never released.  b.mid: a pitch struck twice before it is released,
\* and a NoteOff with no NoteOn.
EventsA == << Ev(0, "NoteOn", 60), Ev(0, "NoteOn", 61), Ev(50, "NoteOff", 60),
              Ev(100, "NoteOff", 61), Ev(100, "NoteOn", 62) >>
EventsB == << Ev(0, "NoteOn", 60), Ev(50, "NoteOn", 60), Ev(50, "NoteOff", 60),
              Ev(100, "NoteOff", 60), Ev(100, "NoteOff", 62) >>

Paths == {"a.mid", "b.mid", "bad.mid"}
Notes == {60, 61, 62}

\* f64 seconds, held in microseconds
SecsOfMs(ms) == ms * UsPerMs
\* `(secs * 1000.0) as u64`: truncates, and saturates at 0 for negatives
SecsToMsU64(secs) == IF secs <= 0 THEN 0 ELSE secs \div UsPerMs

\* MidiData of an event list: duration and auto-detected transpose
MidiDataOf(events) ==
    [events |-> events,
     duration |-> IF Len(events) > 0 THEN SecsOfMs(events[Len(events)].time_ms) ELSE 0,
     transpose |-> detect_best_transpose(events)]

\* ------------------------------------------------------------------ loader
\* `_ => 480.0`: ticks per quarter note when the header is not metrical
DefaultTicksPerQuarter == 480
\* `let mut current_tempo = 500_000.0`: microseconds per quarter note
DefaultTempo == 500000

\* A parsed file: header timing (ticks per quarter note, 0 when the header is
\* not metrical) and tracks, each a sequence of track events
\* [delta, kind, key, vel, tempo] with kind "NoteOn", "NoteOff", "Tempo" (the
\* meta event) or anything else.
TrackEv(delta, kind, key, vel, tempo) ==
    [delta |-> delta, kind |-> kind, key |-> key, vel |-> vel, tempo |-> tempo]

\* `track_time_ticks += event.delta`: the tick of the i-th event of a track
RECURSIVE TrackTimeTicks(_, _)
TrackTimeTicks(track, i) ==
    IF i = 0 THEN 0 ELSE TrackTimeTicks(track, i - 1) + track[i].delta

RECURSIVE Flatten(_)
Flatten(seqs) == IF seqs = << >> THEN << >> ELSE Head(seqs) \o Flatten(Tail(seqs))

\* slice::sort_by_key: a stable sort, equal keys keep their order.  keys[i]
\* is the key of seq[i].
sort_by_key(seq, keys) ==
    LET rank(i) == Cardinality({j \in DOMAIN seq :
                        \/ keys[j] < keys[i]
                        \/ keys[j] = keys[i] /\ j < i}) + 1
    IN  [p \in DOMAIN seq |-> seq[CHOOSE i \in DOMAIN seq : rank(i) = p]]

\* First pass over one track: (track_time_ticks, tempo) of its tempo events
TempoChangesOf(track) ==
    LET at(i) == [tick |-> TrackTimeTicks(track, i), tempo |-> track[i].tempo]
        idx == SelectSeq([i \in DOMAIN track |-> i], LAMBDA i : track[i].kind = "Tempo")
    IN  [n \in DOMAIN idx |-> at(idx[n])]

\* `tempo_changes.sort_by_key(|(time, _)| *time)` over all tracks
tempo_changes(tracks) ==
    LET changes == Flatten([n \in DOMAIN tracks |-> TempoChangesOf(tracks[n])])
    IN  sort_by_key(changes, [i \in DOMAIN changes |-> changes[i].tick])

\* The closure ticks_to_ms.  result_ms is an f64; it is held here as the exact
\* sum of delta_ticks * tempo, that is in units of 1 / (ticks_per_quarter *
\* 1000) ms, and `result_ms as u64` truncates.  (Exact for the files probed
\* below: with 512 ticks per quarter and these tempos every f64 operation of
\* the closure has an exactly representable result.)
\* Fault variant of TicksToMsScan: the segment before a change is charged at
\* the tempo the change brings
RECURSIVE TicksToMsScanRetro(_, _, _, _, _, _)
TicksToMsScanRetro(changes, i, ticks, result, last_tick, current_tempo) ==
    IF i > Len(changes) \/ changes[i].tick >= ticks
    THEN result + (ticks - last_tick) * current_tempo
    ELSE TicksToMsScanRetro(changes, i + 1, ticks,
                            result + (changes[i].tick - last_tick) * changes[i].tempo,
                            changes[i].tick, changes[i].tempo)

RECURSIVE TicksToMsScan(_, _, _, _, _, _)
TicksToMsScan(changes, i, ticks, result, last_tick, current_tempo) ==
    IF i > Len(changes) \/ changes[i].tick >= ticks
    THEN result + (ticks - last_tick) * current_tempo
    ELSE TicksToMsScan(changes, i + 1, ticks,
                       result + (changes[i].tick - last_tick) * current_tempo,
                       changes[i].tick, changes[i].tempo)

ticks_to_ms(changes, ticks_per_quarter, ticks) ==
    TicksToMsScan(changes, 1, ticks, 0, 0, DefaultTempo) \div (ticks_per_quarter * 1000)

\* Fault variant of TimedEventsOf: the velocity of a NoteOn is not looked at
timed_events_by_kind(changes, ticks_per_quarter, track) ==
    LET idx == SelectSeq([i \in DOMAIN track |-> i],
                         LAMBDA i : track[i].kind \in {"NoteOn", "NoteOff"})
        timed(i) == Ev(ticks_to_ms(changes, ticks_per_quarter, TrackTimeTicks(track, i)),
                       track[i].kind, track[i].key)
    IN  [n \in DOMAIN idx |-> timed(idx[n])]

\* Second pass over one track: a TimedEvent for every NoteOn (NoteOff when
\* its velocity is 0) and every NoteOff, nothing for the other events
TimedEventsOf(changes, ticks_per_quarter, track) ==
    LET idx == SelectSeq([i \in DOMAIN track |-> i],
                         LAMBDA i : track[i].kind \in {"NoteOn", "NoteOff"})
        timed(i) == Ev(ticks_to_ms(changes, ticks_per_quarter, TrackTimeTicks(track, i)),
                       IF track[i].kind = "NoteOn" /\ track[i].vel > 0
                       THEN "NoteOn" ELSE "NoteOff",
                       track[i].key)
    IN  [n \in DOMAIN idx |-> timed(idx[n])]

\* Fault variant of sort_events: the events stay in track order
events_in_track_order(events) == events
\* `events.sort_by_key(|e| e.time_ms)`
sort_events(events) == sort_by_key(events, [i \in DOMAIN events |-> events[i].time_ms])

\* crate::midi::load_midi after a successful parse
load_midi(smf) ==
    LET ticks_per_quarter == IF smf.tpq > 0 THEN smf.tpq ELSE DefaultTicksPerQuarter
        changes == tempo_changes(smf.tracks)
        events == Flatten([n \in DOMAIN smf.tracks |->
                              TimedEventsOf(changes, ticks_per_quarter, smf.tracks[n])])
    IN  MidiDataOf(sort_events(events))

DataA == MidiDataOf(EventsA)
NoData == MidiDataOf(<< >>)
DataB == MidiDataOf(EventsB)

\* crate::midi::load_midi(path): Ok(MidiData) or Err
load_midi_file(path) ==
    CASE path = "a.mid" -> [ok |-> TRUE, data |-> DataA]
      [] path = "b.mid" -> [ok |-> TRUE, data |-> DataB]
      [] OTHER -> [ok |-> FALSE, data |-> NoData]

\* Arguments the commands are called with
SeekInputs == {0, 50500}
ModeInputs == {Closest, Raw}
ShiftInputs == {0, 3}

\* ------------------------------------------------------------------- state
VARIABLES
    is_playing, is_paused, loop_mode, note_mode, octave_shift,
    current_position, total_duration, current_file, playback_start,
    midi_data, seek_offset,   \* AppState (midi_data: << >> is None, << d >> is Some(d))
    ctl,                      \* the command in progress (commands hold the AppState mutex)
    thr,                      \* the scheduler threads spawned by start_playback
    pressed,                  \* keyboard: keys whose last action was a press
    calls,                    \* AppState methods run by the commands issued so far
    since_stop,               \* a stop() has returned and no play/seek was issued since
    last_seek,                \* position of the last completed seek, -1 after play/stop
    seek_event_ms,            \* time_ms of the last event acted on since that seek, -1 if none
    stop_held, stop_ups,      \* keys held when stop_playback was entered; keys released since
    playback_ended,           \* "playback-ended" events emitted so far
    probe,                    \* a function applied on its own: its argument and result
    enigo                     \* the ENIGO mutex and the threads inside key_down / key_up

vars == << is_playing, is_paused, loop_mode, note_mode, octave_shift,
           current_position, total_duration, current_file, playback_start,
           midi_data, seek_offset, ctl, thr, pressed, calls, since_stop,
           last_seek, seek_event_ms, stop_held, stop_ups, playback_ended, probe, enigo >>

\* everything but probe
progVars == << is_playing, is_paused, loop_mode, note_mode, octave_shift,
               current_position, total_duration, current_file, playback_start,
               midi_data, seek_offset, ctl, thr, pressed, calls, since_stop,
               last_seek, seek_event_ms, stop_held, stop_ups, playback_ended,
               enigo >>

progVarsButEnigo ==
    << is_playing, is_paused, loop_mode, note_mode, octave_shift,
       current_position, total_duration, current_file, playback_start,
       midi_data, seek_offset, ctl, thr, pressed, calls, since_stop,
       last_seek, seek_event_ms, stop_held, stop_ups, playback_ended >>

appVars == << loop_mode, note_mode, octave_shift, total_duration, current_file,
              playback_start, midi_data, seek_offset >>
ghostVars == << since_stop, last_seek, seek_event_ms >>

Threads == DOMAIN thr

NoMap == [n \in Notes |-> "none"]
NoCount == [k \in Keys |-> 0]
NoOutstanding == [n \in Notes |-> << >>]
NoOff == [paired |-> "none", dec |-> "none"]

\* A thread as spawned, before its first step: the locals of play_midi, the
\* thread's position (pc, timer), the record of its own key calls (down,
\* outstanding, last_off) and paused_wall, the time of the current pass during
\* which is_paused was set and the thread was in its pause loop.  thr holds the live threads, the oldest first.
NewThread ==
    [pc |-> "start", data |-> NoData, offset_ms |-> 0, idx |-> 0,
     start_elapsed |-> 0, total_paused_duration |-> 0, pause_start |-> 0,
     timer |-> 0, paused_wall |-> 0, looped |-> FALSE, stop_called |-> "none",
     note_to_pressed_key |-> NoMap, key_active_count |-> NoCount,
     down |-> {}, outstanding |-> NoOutstanding, last_off |-> NoOff]

CanSpawn == Len(thr) < MaxThreads
Remove(seq, i) == SubSeq(seq, 1, i - 1) \o SubSeq(seq, i + 1, Len(seq))
SleepPcs == {"wait_sleep", "pause_sleep", "loop_sleep"}
InPassPcs == {"event_head", "pause_sleep", "publish", "wait_sleep", "process"}

\* No command in progress.  err: the last command returned Err; was_playing,
\* was_paused and was_file: the flags and the current file as the command in
\* progress (or the one that returned Err) found them
CtlIdle ==
    [pc |-> "idle", timer |-> 0, cont |-> "none", path |-> "none", position |-> 0,
     err |-> FALSE, was_playing |-> FALSE, was_paused |-> FALSE, was_file |-> "None"]

\* A command has entered stop_playback: the stores are done, the sleep begins
InStopPlayback(cont, path, position) ==
    [CtlIdle EXCEPT !.pc = "stop_sleep", !.timer = StopWaitMs, !.cont = cont,
                    !.path = path, !.position = position,
                    !.was_playing = is_playing, !.was_paused = is_paused,
                    !.was_file = current_file]

\* An AppState no playback has been started on, with the loop flag as given:
\* no command in progress, no thread, no key pressed
AppStateIdle(enabled) ==
    /\ is_playing = FALSE
    /\ is_paused = FALSE
    /\ loop_mode = enabled
    /\ note_mode = Closest
    /\ octave_shift = 0
    /\ current_position = 0
    /\ total_duration = 0
    /\ current_file = "None"
    /\ playback_start = "None"
    /\ midi_data = << >>
    /\ seek_offset = 0
    /\ ctl = CtlIdle
    /\ thr = << >>
    /\ pressed = {}
    /\ calls = 0
    /\ since_stop = FALSE
    /\ last_seek = -1
    /\ seek_event_ms = -1
    /\ stop_held = {}
    /\ stop_ups = {}
    /\ playback_ended = 0

\* AppState::new(): the loop flag is off
AppStateNew == AppStateIdle(FALSE)

\* No function applied on its own
NoProbe == [fn |-> "none", arg |-> << >>, out |-> << >>, done |-> FALSE]

\* Threads that call into the keyboard layer at the same time
MaxCallers == 2
\* Calls each of them makes
MaxKeyCalls == 2
Callers == 1 .. MaxCallers

\* lazy_static ENIGO: the mutex is free (holder 0) and no thread is inside
\* key_down or key_up.  pc[c] is where caller c stands, call[c] the direction
\* and key of its call, made[c] the calls it has completed.
EnigoFree ==
    [holder |-> 0,
     pc |-> [c \in Callers |-> "out"],
     call |-> [c \in Callers |-> [direction |-> "none", key |-> "none"]],
     made |-> [c \in Callers |-> 0]]

Init ==
    /\ AppStateNew
    /\ probe = NoProbe
    /\ enigo = EnigoFree

\* --------------------------------------------------------------- keyboard
\* keyboard::string_to_key: the 21 keys the layer recognises
MatchArms ==
    {"z", "x", "c", "v", "b", "n", "m",
     "a", "s", "d", "f", "g", "h", "j",
     "q", "w", "e", "r", "t", "y", "u"}

\* Fault variant of string_to_key: the arm for "u" is missing
string_to_key_without_u(key) == IF key \in MatchArms \ {"u"} THEN key ELSE "None"

string_to_key(key) == IF key \in MatchArms THEN key ELSE "None"

\* keyboard::key_down / key_up on the pressed set (enigo errors are ignored)
key_down(set, key) == IF string_to_key(key) # "None" THEN set \cup {key} ELSE set
key_up(set, key) == IF string_to_key(key) # "None" THEN set \ {key} ELSE set

\* Fault variant of release_all_keys: a key counted once is passed over
release_all_keys_above_one(key_active_count) == {k \in Keys : key_active_count[k] > 1}

\* The closure release_all_keys: the keys it calls key_up for
release_all_keys(key_active_count) == {k \in Keys : key_active_count[k] > 0}

\* ------------------------------------------------------- AppState methods
\* The stores of AppState::stop_playback, before its sleep
stop_playback_stores ==
    /\ is_playing' = FALSE
    /\ is_paused' = FALSE
    /\ current_position' = 0
    /\ playback_start' = "None"

\* The thread AppState::start_playback spawns: play_midi with a clone of midi_data
Spawned(data) == [NewThread EXCEPT !.data = data]

\* AppState::start_playback with a score loaded
start_playback(data, offset) ==
    /\ is_playing' = TRUE
    /\ is_paused' = FALSE
    /\ playback_start' = "Some"
    /\ current_position' = offset
    /\ thr' = Append(thr, Spawned(data))

\* The threads as a call of stop_playback finds them: a thread that is asleep
\* (waiting for an event, polling in pause, or between two passes) is marked
\* with the caller, "stop" for the stop command and "restart" for play and seek
StopCalled(by) ==
    [t \in Threads |->
        IF thr[t].pc \in SleepPcs /\ thr[t].stop_called # "stop"
        THEN [thr[t] EXCEPT !.stop_called = by] ELSE thr[t]]

HeldNow == UNION {release_all_keys(thr[t].key_active_count) : t \in Threads}

\* A command may be issued when none is in progress and the budget covers the
\* AppState methods it runs (play and a playing seek run stop_playback and
\* start_playback: two; every other command runs one)
CanIssue(cost) == ctl.pc = "idle" /\ calls + cost <= MaxCalls

\* ----------------------------------------------------------------- commands
\* main.rs play_midi(path): stop_playback, then (after its sleep) load and start
cmd_play(path) ==
    /\ CanIssue(2)
    /\ CanSpawn
    /\ stop_playback_stores
    /\ ctl' = InStopPlayback("play", path, 0)
    /\ calls' = calls + 2
    /\ since_stop' = FALSE
    /\ last_seek' = -1
    /\ seek_event_ms' = -1
    /\ stop_held' = HeldNow
    /\ stop_ups' = {}
    /\ thr' = StopCalled("restart")
    /\ UNCHANGED << loop_mode, note_mode, octave_shift, total_duration, current_file,
                    midi_data, seek_offset, pressed, playback_ended, probe, enigo >>

\* main.rs stop_playback
cmd_stop ==
    /\ CanIssue(1)
    /\ stop_playback_stores
    /\ ctl' = InStopPlayback("stop", "none", 0)
    /\ calls' = calls + 1
    /\ last_seek' = -1
    /\ seek_event_ms' = -1
    /\ stop_held' = HeldNow
    /\ stop_ups' = {}
    /\ thr' = StopCalled("stop")
    /\ UNCHANGED << loop_mode, note_mode, octave_shift, total_duration, current_file,
                    midi_data, seek_offset, pressed, since_stop,
                    playback_ended, probe, enigo >>

\* Fault variant of toggle_pause: the flag is flipped without looking at is_playing
toggle_pause_unguarded ==
    /\ is_paused' = ~is_paused
    /\ UNCHANGED << is_playing, loop_mode, note_mode, octave_shift, current_position,
                    total_duration, current_file, playback_start, midi_data, seek_offset >>

\* AppState::toggle_pause (main.rs pause_resume)
toggle_pause ==
    /\ IF is_playing
       THEN is_paused' = ~is_paused
       ELSE is_paused' = is_paused
    /\ UNCHANGED << is_playing, loop_mode, note_mode, octave_shift, current_position,
                    total_duration, current_file, playback_start, midi_data, seek_offset >>

cmd_pause_resume ==
    /\ CanIssue(1)
    /\ toggle_pause
    /\ calls' = calls + 1
    /\ ctl' = CtlIdle
    /\ UNCHANGED << thr, pressed, since_stop, last_seek, seek_event_ms,
                    stop_held, stop_ups, playback_ended, probe, enigo >>

\* AppState::set_loop_mode
cmd_set_loop_mode(enabled) ==
    /\ CanIssue(1)
    /\ loop_mode' = enabled
    /\ calls' = calls + 1
    /\ ctl' = CtlIdle
    /\ UNCHANGED << is_playing, is_paused, note_mode, octave_shift, current_position,
                    total_duration, current_file, playback_start, midi_data, seek_offset,
                    thr, pressed, since_stop, last_seek, seek_event_ms,
                    stop_held, stop_ups, playback_ended, probe, enigo >>

\* AppState::set_note_mode
cmd_set_note_mode(mode) ==
    /\ CanIssue(1)
    /\ note_mode' = mode
    /\ calls' = calls + 1
    /\ ctl' = CtlIdle
    /\ UNCHANGED << is_playing, is_paused, loop_mode, octave_shift, current_position,
                    total_duration, current_file, playback_start, midi_data, seek_offset,
                    thr, pressed, since_stop, last_seek, seek_event_ms,
                    stop_held, stop_ups, playback_ended, probe, enigo >>

\* AppState::set_octave_shift
cmd_set_octave_shift(shift) ==
    /\ CanIssue(1)
    /\ octave_shift' = Clamp(shift, -2, 2)
    /\ calls' = calls + 1
    /\ ctl' = CtlIdle
    /\ UNCHANGED << is_playing, is_paused, loop_mode, note_mode, current_position,
                    total_duration, current_file, playback_start, midi_data, seek_offset,
                    thr, pressed, since_stop, last_seek, seek_event_ms,
                    stop_held, stop_ups, playback_ended, probe, enigo >>

\* AppState::seek while playing (both branches): the offset is stored and
\* stop_playback entered; start_playback follows its sleep
cmd_seek_playing(position) ==
    /\ CanIssue(2)
    /\ CanSpawn
    /\ is_playing
    /\ seek_offset' = position
    /\ stop_playback_stores
    /\ ctl' = InStopPlayback(IF is_paused THEN "seek_paused" ELSE "seek", "none", position)
    /\ calls' = calls + 2
    /\ since_stop' = FALSE
    /\ last_seek' = -1
    /\ seek_event_ms' = -1
    /\ stop_held' = HeldNow
    /\ stop_ups' = {}
    /\ thr' = StopCalled("restart")
    /\ UNCHANGED << loop_mode, note_mode, octave_shift, total_duration, current_file,
                    midi_data, pressed, playback_ended, probe, enigo >>

\* AppState::seek while not playing: bookkeeping only
cmd_seek_idle(position) ==
    /\ CanIssue(1)
    /\ ~is_playing
    /\ current_position' = position
    /\ seek_offset' = position
    /\ calls' = calls + 1
    /\ ctl' = CtlIdle
    /\ since_stop' = FALSE
    /\ last_seek' = position
    /\ seek_event_ms' = -1
    /\ UNCHANGED << is_playing, is_paused, loop_mode, note_mode, octave_shift,
                    total_duration, current_file, playback_start, midi_data,
                    thr, pressed, stop_held, stop_ups, playback_ended, probe, enigo >>

\* The sleep of stop_playback ends: stop_playback returns to its caller
StopWake ==
    /\ ctl.pc = "stop_sleep"
    /\ ctl.timer = 0
    /\ ctl' = [ctl EXCEPT !.pc = "stop_done"]
    /\ UNCHANGED << is_playing, is_paused, loop_mode, note_mode, octave_shift,
                    current_position, total_duration, current_file, playback_start,
                    midi_data, seek_offset, thr, pressed, calls, since_stop, last_seek,
                    seek_event_ms, stop_held, stop_ups, playback_ended, probe, enigo >>

\* main.rs stop_playback returns
StopReturn ==
    /\ ctl.pc = "stop_done"
    /\ ctl.cont = "stop"
    /\ ctl' = CtlIdle
    /\ since_stop' = TRUE
    /\ stop_held' = {}
    /\ stop_ups' = {}
    /\ UNCHANGED << is_playing, is_paused, loop_mode, note_mode, octave_shift,
                    current_position, total_duration, current_file, playback_start,
                    midi_data, seek_offset, thr, pressed, calls, last_seek, seek_event_ms,
                    playback_ended, probe, enigo >>

\* main.rs play_midi after stop_playback: load_midi(path)? then start_playback
PlayLoadStart ==
    /\ ctl.pc = "stop_done"
    /\ ctl.cont = "play"
    /\ load_midi_file(ctl.path).ok
    /\ LET data == load_midi_file(ctl.path).data
       IN  /\ total_duration' = data.duration
           /\ current_file' = ctl.path
           /\ midi_data' = << data >>
           /\ start_playback(data, seek_offset)
    /\ ctl' = CtlIdle
    /\ stop_held' = {}
    /\ stop_ups' = {}
    /\ UNCHANGED << loop_mode, note_mode, octave_shift, seek_offset, pressed, calls,
                    since_stop, last_seek, seek_event_ms, playback_ended, probe, enigo >>

\* main.rs play_midi after stop_playback: load_midi fails and the command returns Err
PlayLoadFail ==
    /\ ctl.pc = "stop_done"
    /\ ctl.cont = "play"
    /\ ~load_midi_file(ctl.path).ok
    /\ ctl' = [ctl EXCEPT !.pc = "idle", !.err = TRUE]
    /\ stop_held' = {}
    /\ stop_ups' = {}
    /\ UNCHANGED << is_playing, is_paused, loop_mode, note_mode, octave_shift,
                    current_position, total_duration, current_file, playback_start,
                    midi_data, seek_offset, thr, pressed, calls, since_stop, last_seek,
                    seek_event_ms, playback_ended, probe, enigo >>

\* AppState::seek, playing and not paused, after stop_playback: start_playback
SeekRestart ==
    /\ ctl.pc = "stop_done"
    /\ ctl.cont = "seek"
    /\ midi_data # << >>
    /\ start_playback(midi_data[1], seek_offset)
    /\ ctl' = CtlIdle
    /\ last_seek' = ctl.position
    /\ stop_held' = {}
    /\ stop_ups' = {}
    /\ UNCHANGED << loop_mode, note_mode, octave_shift, total_duration, current_file,
                    midi_data, seek_offset, pressed, calls, since_stop, seek_event_ms,
                    playback_ended, probe, enigo >>

\* AppState::seek, playing and paused, after stop_playback: start_playback ...
SeekPausedRestart ==
    /\ ctl.pc = "stop_done"
    /\ ctl.cont = "seek_paused"
    /\ midi_data # << >>
    /\ start_playback(midi_data[1], seek_offset)
    /\ ctl' = [ctl EXCEPT !.pc = "repause"]
    /\ stop_held' = {}
    /\ stop_ups' = {}
    /\ UNCHANGED << loop_mode, note_mode, octave_shift, total_duration, current_file,
                    midi_data, seek_offset, pressed, calls, since_stop, last_seek,
                    seek_event_ms, playback_ended, probe, enigo >>

\* ... and then is_paused.store(true)
SeekRepause ==
    /\ ctl.pc = "repause"
    /\ is_paused' = TRUE
    /\ ctl' = CtlIdle
    /\ last_seek' = ctl.position
    /\ UNCHANGED << is_playing, loop_mode, note_mode, octave_shift, current_position,
                    total_duration, current_file, playback_start, midi_data, seek_offset,
                    thr, pressed, calls, since_stop, seek_event_ms, stop_held, stop_ups,
                    playback_ended, probe, enigo >>

\* --------------------------------------------------- the scheduler thread
StopWindow == ctl.pc \in {"stop_sleep", "stop_done"}

\* `if event.time_ms < offset_ms { continue; }`: the index of the first event
\* from i on that is not skipped, Len + 1 if there is none
RECURSIVE SkipFrom(_, _, _)
SkipFrom(events, offset_ms, i) ==
    IF i <= Len(events) /\ events[i].time_ms < offset_ms
    THEN SkipFrom(events, offset_ms, i + 1)
    ELSE i

\* Fault variant of BeginPass: a pass after the first starts at the first event
begin_pass_at_first_event(r) ==
    [r EXCEPT !.pc = "event_head",
              !.idx = IF r.pc = "loop_sleep" THEN 1
                      ELSE SkipFrom(r.data.events, r.offset_ms, 1),
              !.start_elapsed = 0,
              !.total_paused_duration = 0, !.pause_start = 0, !.timer = 0,
              !.paused_wall = 0,
              !.note_to_pressed_key = NoMap, !.key_active_count = NoCount,
              !.down = {}, !.outstanding = NoOutstanding, !.last_off = NoOff]

\* `loop {` of play_midi: start_time = now, fresh maps, no paused time
BeginPass(r) ==
    [r EXCEPT !.pc = "event_head", !.idx = SkipFrom(r.data.events, r.offset_ms, 1),
              !.start_elapsed = 0,
              !.total_paused_duration = 0, !.pause_start = 0, !.timer = 0,
              !.paused_wall = 0,
              !.note_to_pressed_key = NoMap, !.key_active_count = NoCount,
              !.down = {}, !.outstanding = NoOutstanding, !.last_off = NoOff]

\* `release_all_keys(&key_active_count); return;`
ExitOnStop(t) ==
    LET rel == release_all_keys(thr[t].key_active_count)
    IN  /\ pressed' = pressed \ rel
        /\ stop_ups' = IF StopWindow THEN stop_ups \cup rel ELSE stop_ups
        /\ thr' = Remove(thr, t)

\* play_midi entry: offset_ms is read from seek_offset, then the first pass begins
ThreadStart(t) ==
    /\ thr[t].pc = "start"
    /\ thr' = [thr EXCEPT ![t] = BeginPass([@ EXCEPT !.offset_ms = SecsToMsU64(seek_offset)])]
    /\ UNCHANGED << is_playing, is_paused, current_position, appVars, ctl, pressed, calls,
                    ghostVars, stop_held, stop_ups, playback_ended, probe, enigo >>

\* The thread is at a stop check with an event in hand: at the check before
\* the event (nothing lies between it and the first check of the wait loop,
\* so the two are one step), or back at the head of the wait loop after its
\* 1 ms sleep
AtWaitHead(t) ==
    \/ thr[t].pc = "event_head" /\ thr[t].idx <= Len(thr[t].data.events)
    \/ thr[t].pc = "wait_sleep" /\ thr[t].timer = 0

\* Fault variant of WaitStop: the thread that leaves on the stop flag emits
\* "playback-ended" as well
wait_stop_emits(t) ==
    /\ AtWaitHead(t)
    /\ ~is_playing
    /\ ExitOnStop(t)
    /\ playback_ended' = playback_ended + 1
    /\ UNCHANGED << is_playing, is_paused, current_position, appVars, ctl, calls, ghostVars,
                    stop_held, probe, enigo >>

\* Wait loop, the stop check: stop flag set
WaitStop(t) ==
    /\ AtWaitHead(t)
    /\ ~is_playing
    /\ ExitOnStop(t)
    /\ UNCHANGED << is_playing, is_paused, current_position, appVars, ctl, calls, ghostVars,
                    stop_held, playback_ended, probe, enigo >>

\* Wait loop, still playing: `if is_paused.load()`.  Paused: pause_start = now
\* and the first 50 ms sleep of the pause loop; else on to the position.
WaitCheck(t) ==
    /\ AtWaitHead(t)
    /\ is_playing
    /\ thr' = [thr EXCEPT ![t] =
                 IF is_paused
                 THEN [@ EXCEPT !.pc = "pause_sleep", !.timer = PausePollMs,
                                !.pause_start = thr[t].start_elapsed]
                 ELSE [@ EXCEPT !.pc = "publish", !.timer = 0]]
    /\ UNCHANGED << is_playing, is_paused, current_position, appVars, ctl, pressed, calls,
                    ghostVars, stop_held, stop_ups, playback_ended, probe, enigo >>

\* Pause loop, after the 50 ms sleep: stop flag set
PauseStop(t) ==
    /\ thr[t].pc = "pause_sleep"
    /\ thr[t].timer = 0
    /\ ~is_playing
    /\ ExitOnStop(t)
    /\ UNCHANGED << is_playing, is_paused, current_position, appVars, ctl, calls, ghostVars,
                    stop_held, playback_ended, probe, enigo >>

\* Pause loop, after the 50 ms sleep, still playing: `while is_paused &&
\* is_playing` sleeps again, or the loop is left and pause_start.elapsed() is
\* added to total_paused_duration
PauseWake(t) ==
    /\ thr[t].pc = "pause_sleep"
    /\ thr[t].timer = 0
    /\ is_playing
    /\ thr' = [thr EXCEPT ![t] =
                 IF is_paused
                 THEN [@ EXCEPT !.timer = PausePollMs]
                 ELSE [@ EXCEPT !.pc = "publish",
                                !.total_paused_duration =
                                    @ + (thr[t].start_elapsed - thr[t].pause_start)]]
    /\ UNCHANGED << is_playing, is_paused, current_position, appVars, ctl, pressed, calls,
                    ghostVars, stop_held, stop_ups, playback_ended, probe, enigo >>

\* Fault variant of effective_elapsed: the paused time is not subtracted
elapsed_with_pauses(r) == r.start_elapsed

\* start_time.elapsed().saturating_sub(total_paused_duration)
effective_elapsed(r) == Max2(r.start_elapsed - r.total_paused_duration, 0)
\* Duration::from_millis(event.time_ms - offset_ms)
target_time(r) == r.data.events[r.idx].time_ms - r.offset_ms
\* effective_elapsed.as_secs_f64() + (offset_ms as f64 / 1000.0)
published_position(r) == SecsOfMs(effective_elapsed(r)) + SecsOfMs(r.offset_ms)

\* Publish the position, then break out of the wait loop or sleep 1 ms
Publish(t) ==
    /\ thr[t].pc = "publish"
    /\ current_position' = published_position(thr[t])
    /\ thr' = [thr EXCEPT ![t] =
                 IF effective_elapsed(thr[t]) >= target_time(thr[t])
                 THEN [@ EXCEPT !.pc = "process"]
                 ELSE [@ EXCEPT !.pc = "wait_sleep", !.timer = PollSleepMs]]
    /\ UNCHANGED << is_playing, is_paused, appVars, ctl, pressed, calls, ghostVars,
                    stop_held, stop_ups, playback_ended, probe, enigo >>

\* EventType::NoteOn: remember the key for the note, count it, press on 0 -> 1.
\* Result: the thread's locals and the key calls made.
note_on(r, note, key) ==
    LET count == r.key_active_count[key]
    IN  [r |-> [r EXCEPT !.note_to_pressed_key[note] = key,
                         !.key_active_count[key] = count + 1],
         downs |-> IF count = 0 THEN {key} ELSE {},
         ups |-> {}]

\* EventType::NoteOff: the key remembered for the note, if any, is counted
\* down and released on reaching 0.
note_off(r, note) ==
    LET pressed_key == r.note_to_pressed_key[note]
    IN  IF pressed_key = "none"
        THEN [r |-> r, downs |-> {}, ups |-> {}]
        ELSE LET count == r.key_active_count[pressed_key]
                 removed == [r EXCEPT !.note_to_pressed_key[note] = "none"]
             IN  IF count > 0
                 THEN [r |-> [removed EXCEPT !.key_active_count[pressed_key] = count - 1],
                       downs |-> {},
                       ups |-> IF count - 1 = 0 THEN {pressed_key} ELSE {}]
                 ELSE [r |-> removed, downs |-> {}, ups |-> {}]

\* The key whose count a NoteOff step changed, "none" if it changed none
Decremented(before, after) ==
    IF \E k \in Keys : after.key_active_count[k] < before.key_active_count[k]
    THEN CHOOSE k \in Keys : after.key_active_count[k] < before.key_active_count[k]
    ELSE "none"

Last(seq) == seq[Len(seq)]
Front(seq) == SubSeq(seq, 1, Len(seq) - 1)

\* Fault variant of current_key: the mode and the shift of the constructor,
\* as if they were read once before the loop
key_of_initial_settings(r, note) == KeyForEvent(Closest, note, r.data.transpose, 0)

\* note_mode.load and octave_shift.load inside the event loop, then the match
current_key(r, note) ==
    KeyForEvent(NoteModeFrom(note_mode), note, r.data.transpose, octave_shift)

\* One event processed: the mode and the octave shift are loaded, the key
\* computed, and the NoteOn / NoteOff arm run.  The thread's own record of its
\* calls is kept beside the locals: `down` (keys it pressed and has not
\* released), `outstanding` (per pitch, the keys of the NoteOns that have had
\* no NoteOff yet, the latest last) and `last_off` (for the last NoteOff: the
\* key of the latest outstanding NoteOn of its pitch, and the key counted down).
Process(t) ==
    /\ thr[t].pc = "process"
    /\ LET r == thr[t]
           ev == r.data.events[r.idx]
           key == current_key(r, ev.note)
           st == IF ev.event_type = "NoteOn" THEN note_on(r, ev.note, key)
                 ELSE note_off(r, ev.note)
           open == r.outstanding[ev.note]
       IN  /\ pressed' = (pressed \cup {key_ \in st.downs : string_to_key(key_) # "None"})
                            \ {key_ \in st.ups : string_to_key(key_) # "None"}
           /\ stop_ups' = IF StopWindow THEN stop_ups \cup st.ups ELSE stop_ups
           /\ seek_event_ms' = IF last_seek >= 0 /\ (st.downs \cup st.ups) # {}
                               THEN ev.time_ms ELSE seek_event_ms
           /\ thr' = [thr EXCEPT ![t] =
                [st.r EXCEPT
                    !.pc = "event_head",
                    !.idx = SkipFrom(r.data.events, r.offset_ms, r.idx + 1),
                    !.down = (r.down \cup st.downs) \ st.ups,
                    !.outstanding[ev.note] =
                        IF ev.event_type = "NoteOn" THEN Append(open, key)
                        ELSE IF open = << >> THEN open ELSE Front(open),
                    !.last_off =
                        IF ev.event_type = "NoteOn" THEN r.last_off
                        ELSE [paired |-> IF open = << >> THEN "none" ELSE Last(open),
                              dec |-> Decremented(r, st.r)]]]
    /\ UNCHANGED << is_playing, is_paused, current_position, appVars, ctl, calls,
                    since_stop, last_seek, stop_held, playback_ended, probe, enigo >>

\* The locals of a pass after its last release_all_keys: they are not read again
EndPass(r, rel) ==
    [r EXCEPT !.note_to_pressed_key = NoMap, !.key_active_count = NoCount,
              !.down = r.down \ rel, !.outstanding = NoOutstanding, !.last_off = NoOff,
              !.start_elapsed = 0, !.total_paused_duration = 0, !.pause_start = 0,
              !.paused_wall = 0]

\* End of the event list with loop on: release all keys, sleep 500 ms
PassEndLoop(t) ==
    /\ thr[t].pc = "event_head"
    /\ thr[t].idx > Len(thr[t].data.events)
    /\ loop_mode
    /\ LET rel == release_all_keys(thr[t].key_active_count)
       IN  /\ pressed' = pressed \ rel
           /\ stop_ups' = IF StopWindow THEN stop_ups \cup rel ELSE stop_ups
           /\ thr' = [thr EXCEPT ![t] =
                        [EndPass(thr[t], rel) EXCEPT !.pc = "loop_sleep",
                                                     !.timer = LoopSleepMs]]
    /\ UNCHANGED << is_playing, is_paused, current_position, appVars, ctl, calls, ghostVars,
                    stop_held, playback_ended, probe, enigo >>

\* End of the event list with loop off: release all keys, leave the loop
PassEndBreak(t) ==
    /\ thr[t].pc = "event_head"
    /\ thr[t].idx > Len(thr[t].data.events)
    /\ ~loop_mode
    /\ LET rel == release_all_keys(thr[t].key_active_count)
       IN  /\ pressed' = pressed \ rel
           /\ stop_ups' = IF StopWindow THEN stop_ups \cup rel ELSE stop_ups
           /\ thr' = [thr EXCEPT ![t] = [EndPass(thr[t], rel) EXCEPT !.pc = "finish"]]
    /\ UNCHANGED << is_playing, is_paused, current_position, appVars, ctl, calls, ghostVars,
                    stop_held, playback_ended, probe, enigo >>

\* After the 500 ms sleep: the next pass begins
LoopWake(t) ==
    /\ thr[t].pc = "loop_sleep"
    /\ thr[t].timer = 0
    /\ thr' = [thr EXCEPT ![t] = [BeginPass(@) EXCEPT !.looped = TRUE]]
    /\ UNCHANGED << is_playing, is_paused, current_position, appVars, ctl, pressed, calls,
                    ghostVars, stop_held, stop_ups, playback_ended, probe, enigo >>

\* Fault variant of Finish: the thread ends and leaves is_playing as it is
finish_keeps_playing(t) ==
    /\ thr[t].pc = "finish"
    /\ playback_ended' = playback_ended + 1
    /\ thr' = Remove(thr, t)
    /\ UNCHANGED << is_playing, is_paused, current_position, appVars, ctl, pressed, calls,
                    ghostVars, stop_held, stop_ups, probe, enigo >>

\* Fault variant of Finish: the flag is cleared and nothing is emitted
finish_without_emit(t) ==
    /\ thr[t].pc = "finish"
    /\ is_playing' = FALSE
    /\ thr' = Remove(thr, t)
    /\ UNCHANGED << is_paused, current_position, appVars, ctl, pressed, calls, ghostVars,
                    stop_held, stop_ups, playback_ended, probe, enigo >>

\* `is_playing.store(false); window.emit("playback-ended")`, and the thread ends
Finish(t) ==
    /\ thr[t].pc = "finish"
    /\ is_playing' = FALSE
    /\ playback_ended' = playback_ended + 1
    /\ thr' = Remove(thr, t)
    /\ UNCHANGED << is_paused, current_position, appVars, ctl, pressed, calls, ghostVars,
                    stop_held, stop_ups, probe, enigo >>

\* -------------------------------------------------------------------- time
\* TickMs pass.  Every thread is asleep and no sleep has ended: sleeping
\* threads move TickMs closer to waking, start_time.elapsed() grows for the
\* threads inside a pass, and so does paused_wall for a paused thread.
Tick ==
    /\ ctl.pc \in {"idle", "stop_sleep"}
    /\ ctl.pc = "stop_sleep" => ctl.timer > 0
    /\ \A t \in Threads : thr[t].pc \in SleepPcs /\ thr[t].timer > 0
    /\ ctl.pc = "stop_sleep" \/ thr # << >>
    /\ \A t \in Threads :
          thr[t].pc \in {"wait_sleep", "pause_sleep"}
              => thr[t].start_elapsed + TickMs <= MaxWallMs
    /\ ctl' = [ctl EXCEPT !.timer = Max2(@ - TickMs, 0)]
    /\ thr' = [t \in Threads |->
                 [thr[t] EXCEPT
                     !.timer = Max2(@ - TickMs, 0),
                     !.start_elapsed =
                         IF thr[t].pc \in {"wait_sleep", "pause_sleep"}
                         THEN @ + TickMs ELSE @,
                     !.paused_wall =
                         IF thr[t].pc = "pause_sleep" /\ is_paused
                         THEN @ + TickMs ELSE @]]
    /\ UNCHANGED << is_playing, is_paused, current_position, appVars, pressed, calls,
                    ghostVars, stop_held, stop_ups, playback_ended, probe, enigo >>

\* ------------------------------------------- AppState methods called directly
\* AppState::load_midi(path): crate::midi::load_midi(path)? and, only when it
\* succeeded, the three stores; an Err is returned before any store
app_load_midi(path) ==
    /\ CanIssue(1)
    /\ calls' = calls + 1
    /\ IF load_midi_file(path).ok
       THEN /\ total_duration' = load_midi_file(path).data.duration
            /\ current_file' = path
            /\ midi_data' = << load_midi_file(path).data >>
            /\ ctl' = CtlIdle
       ELSE /\ UNCHANGED << total_duration, current_file, midi_data >>
            /\ ctl' = [CtlIdle EXCEPT !.cont = "load", !.path = path, !.err = TRUE,
                                      !.was_playing = is_playing,
                                      !.was_paused = is_paused,
                                      !.was_file = current_file]
    /\ UNCHANGED << is_playing, is_paused, loop_mode, note_mode, octave_shift,
                    current_position, playback_start, seek_offset, thr, pressed,
                    ghostVars, stop_held, stop_ups, playback_ended, probe, enigo >>

\* Fault variant of start_playback_none: the flags are stored before the score
\* is looked at
start_playback_flags_first ==
    /\ is_playing' = TRUE
    /\ is_paused' = FALSE
    /\ ctl' = [CtlIdle EXCEPT !.cont = "start", !.err = TRUE]
    /\ UNCHANGED << loop_mode, note_mode, octave_shift, current_position,
                    total_duration, current_file, playback_start, midi_data,
                    seek_offset, thr, pressed, ghostVars, stop_held, stop_ups,
                    playback_ended, probe, enigo >>

\* AppState::start_playback with no score loaded: the else branch returns
\* Err("No MIDI file loaded") and nothing else happens
start_playback_none ==
    /\ ctl' = [CtlIdle EXCEPT !.cont = "start", !.err = TRUE]
    /\ UNCHANGED << is_playing, is_paused, loop_mode, note_mode, octave_shift,
                    current_position, total_duration, current_file, playback_start,
                    midi_data, seek_offset, thr, pressed, ghostVars, stop_held,
                    stop_ups, playback_ended, probe, enigo >>

\* AppState::start_playback called on its own
app_start_playback ==
    /\ CanIssue(2)
    /\ calls' = calls + 2
    /\ IF midi_data # << >>
       THEN /\ CanSpawn
            /\ start_playback(midi_data[1], seek_offset)
            /\ ctl' = CtlIdle
            /\ since_stop' = FALSE
            /\ last_seek' = -1
            /\ seek_event_ms' = -1
            /\ UNCHANGED << loop_mode, note_mode, octave_shift, total_duration,
                            current_file, midi_data, seek_offset, pressed,
                            stop_held, stop_ups, playback_ended, probe, enigo >>
       ELSE start_playback_none

\* ----------------------------------------------------------- specification
Command ==
    \/ \E path \in Paths : cmd_play(path)
    \/ cmd_stop
    \/ cmd_pause_resume
    \/ \E enabled \in BOOLEAN : cmd_set_loop_mode(enabled)
    \/ \E mode \in ModeInputs : cmd_set_note_mode(mode)
    \/ \E shift \in ShiftInputs : cmd_set_octave_shift(shift)
    \/ \E position \in SeekInputs : cmd_seek_playing(position)
    \/ \E position \in SeekInputs : cmd_seek_idle(position)

CommandStep ==
    \/ StopWake
    \/ StopReturn
    \/ PlayLoadStart
    \/ PlayLoadFail
    \/ SeekRestart
    \/ SeekPausedRestart
    \/ SeekRepause

Next ==
    \/ Command
    \/ CommandStep
    \/ \E t \in Threads : ThreadStart(t)
    \/ \E t \in Threads : WaitStop(t)
    \/ \E t \in Threads : WaitCheck(t)
    \/ \E t \in Threads : PauseStop(t)
    \/ \E t \in Threads : PauseWake(t)
    \/ \E t \in Threads : Publish(t)
    \/ \E t \in Threads : Process(t)
    \/ \E t \in Threads : PassEndLoop(t)
    \/ \E t \in Threads : PassEndBreak(t)
    \/ \E t \in Threads : LoopWake(t)
    \/ \E t \in Threads : Finish(t)
    \/ Tick

Spec == Init /\ [][Next]_vars

\* The same program on an AppState whose loop flag the user has switched on
\* before the first playback (set_loop_mode(true) on the new AppState)
InitLoop ==
    /\ AppStateIdle(TRUE)
    /\ probe = NoProbe
    /\ enigo = EnigoFree

SpecLoop == InitLoop /\ [][Next]_vars

\* One playback at a time with loop off and no stop flag set while a
\* scheduler runs, under its scheduling: play is issued only when no scheduler
\* is alive, and the commands that store is_playing = false or loop_mode
\* are not issued.  A scheduler thread that can take a step takes one (the
\* threads are OS threads), time passes, and a command in progress goes on.
CommandLive ==
    \/ \E path \in Paths : thr = << >> /\ cmd_play(path)
    \/ cmd_pause_resume
    \/ \E mode \in ModeInputs : cmd_set_note_mode(mode)
    \/ \E shift \in ShiftInputs : cmd_set_octave_shift(shift)
    \/ \E position \in SeekInputs : cmd_seek_idle(position)

CommandStepLive ==
    \/ StopWake
    \/ PlayLoadStart
    \/ PlayLoadFail

ThreadStepLive ==
    \/ \E t \in Threads : ThreadStart(t)
    \/ \E t \in Threads : WaitCheck(t)
    \/ \E t \in Threads : PauseWake(t)
    \/ \E t \in Threads : Publish(t)
    \/ \E t \in Threads : Process(t)
    \/ \E t \in Threads : PassEndBreak(t)
    \/ \E t \in Threads : Finish(t)

NextLive ==
    \/ CommandLive
    \/ CommandStepLive
    \/ ThreadStepLive
    \/ Tick

Fairness == WF_vars(ThreadStepLive) /\ WF_vars(Tick) /\ WF_vars(CommandStepLive)

SpecLive == Init /\ [][NextLive]_vars /\ Fairness

\* The program with AppState::load_midi and AppState::start_playback also
\* called on their own, as the public methods they are
AppCall ==
    \/ \E path \in Paths : app_load_midi(path)
    \/ app_start_playback

NextApp ==
    \/ Next
    \/ AppCall

SpecApp == Init /\ [][NextApp]_vars

\* ------------------------------------------------ functions on their own
\* Longest event list handed to detect_best_transpose
MaxProbeEvents == 2
\* Largest magnitude of a note handed to note_to_key_raw
MaxProbeNote == 150
\* Most events in one track of a file handed to load_midi
MaxTrackLen == 2

\* Pitches of the probe lists: the ends of the u8 range, and notes beside and
\* between the instrument's notes.  The lists hold NoteOns of these pitches
\* and a NoteOff, which the heuristic skips whatever its pitch.
ProbeNotes == {0, 59, 61, 66, 127}
ProbeEvents == {Ev(0, "NoteOn", n) : n \in ProbeNotes} \cup {Ev(0, "NoteOff", 60)}
\* NoteOns at 60, 62, 64, 65, 67, each an instrument note
OnInstrumentFive ==
    << Ev(0, "NoteOn", 60), Ev(0, "NoteOn", 62), Ev(0, "NoteOn", 64),
       Ev(0, "NoteOn", 65), Ev(0, "NoteOn", 67) >>
ProbeEventLists ==
    UNION {[1 .. k -> ProbeEvents] : k \in 0 .. MaxProbeEvents} \cup {OnInstrumentFive}

\* Track events of the probed files: a NoteOn, the two forms of a note off,
\* and a tempo change to 1024000 us per quarter note (which is also an event
\* that yields no TimedEvent but advances the track's time)
ProbeTrackEvents ==
    {TrackEv(0, "NoteOn", 60, 64, 0), TrackEv(128, "NoteOff", 60, 0, 0),
     TrackEv(64, "NoteOn", 60, 0, 0), TrackEv(64, "Tempo", 0, 0, 1024000)}
ProbeTracks == UNION {[1 .. k -> ProbeTrackEvents] : k \in 0 .. MaxTrackLen}
\* Files of two tracks (either may be empty) at 512 ticks per quarter note
ProbeSmfs == {[tpq |-> 512, tracks |-> << a, b >>] : a \in ProbeTracks, b \in ProbeTracks}

\* Most entries in a tempo map handed to ticks_to_ms
MaxTempoChanges == 2
\* Tempo maps: changes at ticks 0, 8 and 16 to a tempo faster or slower than
\* the default, in ascending order of tick as sort_by_key leaves them (two
\* changes may share a tick, in either order)
ProbeChanges == {[tick |-> c, tempo |-> t] : c \in {0, 8, 16}, t \in {250000, 1024000}}
ProbeTempoMaps ==
    {m \in UNION {[1 .. k -> ProbeChanges] : k \in 0 .. MaxTempoChanges} :
        \A i \in 1 .. Len(m) - 1 : m[i].tick <= m[i + 1].tick}
\* Ticks asked for: at, just after and between the changes
ProbeTicks == {0, 1, 8, 9, 16, 24}
ProbeTickQueries ==
    {q \in [changes : ProbeTempoMaps, t1 : ProbeTicks, t2 : ProbeTicks] : q.t1 <= q.t2}

Probe(fn, arg) == [fn |-> fn, arg |-> arg, out |-> << >>, done |-> FALSE]

InitFn ==
    /\ AppStateNew
    /\ enigo = EnigoFree
    /\ \/ \E events \in ProbeEventLists : probe = Probe("detect_best_transpose", events)
       \/ \E note \in -MaxProbeNote .. MaxProbeNote : probe = Probe("note_to_key_raw", note)
       \/ \E smf \in ProbeSmfs : probe = Probe("load_midi", smf)
       \/ \E query \in ProbeTickQueries : probe = Probe("ticks_to_ms", query)

apply_detect_best_transpose ==
    /\ probe.fn = "detect_best_transpose"
    /\ ~probe.done
    /\ probe' = [probe EXCEPT !.out = detect_best_transpose(probe.arg), !.done = TRUE]
    /\ UNCHANGED progVars

apply_note_to_key_raw ==
    /\ probe.fn = "note_to_key_raw"
    /\ ~probe.done
    /\ probe' = [probe EXCEPT !.out = [key_idx |-> raw_key_idx(probe.arg),
                                       key |-> note_to_key_raw(probe.arg)],
                              !.done = TRUE]
    /\ UNCHANGED progVars

apply_load_midi ==
    /\ probe.fn = "load_midi"
    /\ ~probe.done
    /\ probe' = [probe EXCEPT !.out = load_midi(probe.arg), !.done = TRUE]
    /\ UNCHANGED progVars

\* The closure ticks_to_ms of a file at 512 ticks per quarter note, called for
\* two ticks under one tempo map
apply_ticks_to_ms ==
    /\ probe.fn = "ticks_to_ms"
    /\ ~probe.done
    /\ probe' = [probe EXCEPT
                    !.out = [ms1 |-> ticks_to_ms(probe.arg.changes, 512, probe.arg.t1),
                             ms2 |-> ticks_to_ms(probe.arg.changes, 512, probe.arg.t2)],
                    !.done = TRUE]
    /\ UNCHANGED progVars

NextFn ==
    \/ apply_detect_best_transpose
    \/ apply_note_to_key_raw
    \/ apply_load_midi
    \/ apply_ticks_to_ms

SpecFn == InitFn /\ [][NextFn]_vars

\* ------------------------------------------------- the six mapping modes
\* event.note is a MIDI data byte (u7)
Pitches == 0 .. 127
\* midi_data.transpose: what detect_best_transpose can return
Transposes == -12 .. 12
\* octave_shift after the clamp of set_octave_shift
OctaveShifts == -2 .. 2
NoteModes == {Closest, Quantize, TransposeOnly, Pentatonic, Chromatic, Raw}

InitMap ==
    /\ AppStateNew
    /\ enigo = EnigoFree
    /\ \E a \in [note : Pitches, transpose : Transposes, octave_shift : OctaveShifts] :
          probe = Probe("key_for_event", a)

\* The key of one NoteOn under each of the six modes
apply_key_for_event ==
    /\ probe.fn = "key_for_event"
    /\ ~probe.done
    /\ probe' = [probe EXCEPT
                    !.out = [m \in NoteModes |->
                               KeyForEvent(m, probe.arg.note, probe.arg.transpose,
                                           probe.arg.octave_shift)],
                    !.done = TRUE]
    /\ UNCHANGED progVars

NextMap == apply_key_for_event

SpecMap == InitMap /\ [][NextMap]_vars

\* ------------------------------------------- the keyboard layer on its own
\* Keys the callers pass: two the layer recognises and one it does not
CallKeys == {"z", "a", "?"}

\* Fault variant of enigo_lock: the thread goes on without taking the mutex
enigo_no_lock(c, direction, key) ==
    /\ enigo.pc[c] = "out"
    /\ enigo.made[c] < MaxKeyCalls
    /\ enigo' = [enigo EXCEPT !.pc[c] = "locked",
                              !.call[c] = [direction |-> direction, key |-> key]]
    /\ UNCHANGED << progVarsButEnigo, probe >>

\* `let mut enigo = ENIGO.lock().unwrap()` of key_down ("Press") or key_up
\* ("Release"): the thread waits until the mutex is free and takes it
enigo_lock(c, direction, key) ==
    /\ enigo.pc[c] = "out"
    /\ enigo.made[c] < MaxKeyCalls
    /\ enigo.holder = 0
    /\ enigo' = [enigo EXCEPT !.holder = c, !.pc[c] = "locked",
                              !.call[c] = [direction |-> direction, key |-> key]]
    /\ UNCHANGED << progVarsButEnigo, probe >>

\* `if let Some(k) = string_to_key(key)`: enigo.key is entered for a key the
\* layer recognises and skipped otherwise
enigo_key_enter(c) ==
    /\ enigo.pc[c] = "locked"
    /\ enigo' = [enigo EXCEPT !.pc[c] = IF string_to_key(enigo.call[c].key) # "None"
                                        THEN "in_enigo" ELSE "unlock"]
    /\ UNCHANGED << progVarsButEnigo, probe >>

\* enigo.key returns: the press or release has been delivered
enigo_key_return(c) ==
    /\ enigo.pc[c] = "in_enigo"
    /\ enigo' = [enigo EXCEPT !.pc[c] = "unlock"]
    /\ pressed' = IF enigo.call[c].direction = "Press"
                  THEN key_down(pressed, enigo.call[c].key)
                  ELSE key_up(pressed, enigo.call[c].key)
    /\ UNCHANGED << is_playing, is_paused, loop_mode, note_mode, octave_shift,
                    current_position, total_duration, current_file, playback_start,
                    midi_data, seek_offset, ctl, thr, calls, since_stop, last_seek,
                    seek_event_ms, stop_held, stop_ups, playback_ended, probe >>

\* End of key_down / key_up: the guard is dropped
enigo_unlock(c) ==
    /\ enigo.pc[c] = "unlock"
    /\ enigo' = [enigo EXCEPT !.holder = IF enigo.holder = c THEN 0 ELSE enigo.holder,
                              !.pc[c] = "out",
                              !.made[c] = enigo.made[c] + 1]
    /\ UNCHANGED << progVarsButEnigo, probe >>

NextKeys ==
    \/ \E c \in Callers, direction \in {"Press", "Release"}, key \in CallKeys :
          enigo_lock(c, direction, key)
    \/ \E c \in Callers : enigo_key_enter(c)
    \/ \E c \in Callers : enigo_key_return(c)
    \/ \E c \in Callers : enigo_unlock(c)

SpecKeys == Init /\ [][NextKeys]_vars

\* ------------------------------------------------------------------ claims
Range(seq) == {seq[i] : i \in DOMAIN seq}

\* C1: at most one scheduler thread is alive at any instant: a play or a seek
\* restart spawns its scheduler only after every earlier one has terminated.
C1_AtMostOneScheduler == Len(thr) <= 1

\* C2: when stop_playback returns no key is pressed, and every key whose
\* reference count was positive when it was called has had a key_up since,
\* wherever in its loop the scheduler was.
C2_StopReturnsReleased ==
    ctl.pc = "stop_done" => pressed = {} /\ stop_held \subseteq stop_ups

\* C2 case: stop() is about to return and keys were held when it was called
C2_Witness == ctl.pc = "stop_done" /\ ctl.cont = "stop" /\ stop_held # {}

\* C3: on every exit path of a scheduler thread (stop seen before an event,
\* in the wait loop or in a pause poll; natural end of the list) and at the
\* end of every pass before a loop restart, every key the thread pressed and
\* has not released is up after the step.
C3_NoKeyLeftStuck ==
    [][\A t \in Threads :
          (WaitStop(t) \/ PauseStop(t) \/ PassEndLoop(t) \/ PassEndBreak(t))
              => thr[t].down \cap pressed' = {}]_vars

\* C3 case: the thread ended inside the stop window and the held keys went up
C3_Witness ==
    /\ ctl.pc = "stop_sleep"
    /\ thr = << >>
    /\ stop_held # {}
    /\ stop_held \subseteq stop_ups
    /\ pressed = {}

\* C4: a key is pressed if and only if its reference count in a running pass
\* is greater than 0.
C4_PressedIffCounted ==
    \A k \in Keys : k \in pressed <=> \E t \in Threads : thr[t].key_active_count[k] > 0

\* C5: every NoteOff counts down exactly the key its paired NoteOn counted up
\* (none when it has no NoteOn outstanding).
C5_NoteOffHitsPairedKey ==
    \A t \in Threads : thr[t].last_off.dec = thr[t].last_off.paired

\* C6: inside a pass a key is down for a thread exactly while a NoteOn that
\* mapped to it has had no NoteOff: one key_down for overlapping NoteOns of one
\* key, no key_up after the first NoteOff, the key_up once both are processed.
C6_OneDownOneUp ==
    \A t \in Threads :
        thr[t].pc \in InPassPcs =>
            \A k \in Keys :
                k \in thr[t].down <=> \E n \in Notes : k \in Range(thr[t].outstanding[n])

\* C7: stop() resets the seek offset to 0.
C7_StopResetsOffset == since_stop => seek_offset = 0

\* C8: after stop() has returned, and until the next play or seek, the
\* position reads 0.
C8_PositionZeroAfterStop == since_stop => current_position = 0

\* C9: after seek(S) no key action is made for an event with time_ms < S*1000
\* and every published position is at least S.
C9_SeekSkipsEarlier ==
    last_seek >= 0 =>
        /\ current_position >= last_seek
        /\ seek_event_ms = -1 \/ SecsOfMs(seek_event_ms) >= last_seek

\* C10: pause_resume flips is_paused when and only when is_playing is true,
\* and with is_playing false it changes no field of the state.
C10_PauseOnlyWhilePlaying ==
    [][cmd_pause_resume =>
          /\ is_playing => is_paused' = ~is_paused
          /\ ~is_playing => is_paused' = is_paused
          /\ UNCHANGED << is_playing, current_position, playback_start, appVars >>]_vars

\* C10 case: playing and paused by pause_resume (a paused seek leaves last_seek set)
C10_Witness == is_playing /\ is_paused /\ ctl.pc = "idle" /\ last_seek = -1

\* C12: a load that fails reports an error and changes no state: the total
\* duration, the current file, the loaded score and the playback flags are as
\* the play(path) command found them.
C12_FailedLoadMutatesNothing ==
    ctl.err =>
        /\ current_file = ctl.was_file
        /\ midi_data = (IF ctl.was_file = "None" THEN << >>
                        ELSE << load_midi_file(ctl.was_file).data >>)
        /\ total_duration = (IF ctl.was_file = "None" THEN 0
                             ELSE load_midi_file(ctl.was_file).data.duration)
        /\ is_playing = ctl.was_playing
        /\ is_paused = ctl.was_paused

\* C11: start_playback with no score loaded returns an error, spawns no
\* scheduler (and so no reporter, which only a scheduler spawns) and leaves
\* is_playing, is_paused, current_position and seek_offset as they were.
C11_PlayWithoutScore ==
    [][(app_start_playback /\ midi_data = << >>) =>
          /\ ctl'.err
          /\ thr' = thr
          /\ UNCHANGED << is_playing, is_paused, current_position, seek_offset >>]_vars

\* C11 case: start_playback has returned Err after a seek had moved the offset
C11_Witness ==
    ctl.err /\ ctl.cont = "start" /\ midi_data = << >> /\ seek_offset > 0 /\ thr = << >>

\* Ord::clamp(-2, 2) on every i8 is min(2, max(-2, v)) and lands in [-2, 2]
ClampOnI8 ==
    \A v \in I8 : /\ Clamp(v, -2, 2) = Min2(2, Max2(-2, v))
                   /\ Clamp(v, -2, 2) \in -2 .. 2

\* C13: octave_shift is within [-2, 2] in every reachable state:
\* set_octave_shift(v) stores min(2, max(-2, v)) for every 8-bit signed v, and
\* nothing else writes the field.
C13_OctaveShiftInRange ==
    /\ octave_shift \in -2 .. 2
    /\ ClampOnI8

\* C13 case: set_octave_shift(3) has stored the clamped value
C13_Witness == octave_shift = 2 /\ 3 \in ShiftInputs

\* C14: set_note_mode, set_octave_shift and set_loop_mode neither terminate
\* nor spawn a scheduler, and the key of each NoteOn is computed from the
\* note_mode and octave_shift that are current when the event is processed.
C14_SettingsAppliedLive ==
    [][/\ ((\E mode \in ModeInputs : cmd_set_note_mode(mode))
            \/ (\E shift \in ShiftInputs : cmd_set_octave_shift(shift))
            \/ (\E enabled \in BOOLEAN : cmd_set_loop_mode(enabled)))
           => thr' = thr /\ is_playing' = is_playing
       /\ \A t \in Threads :
             (Process(t) /\ thr[t].data.events[thr[t].idx].event_type = "NoteOn") =>
                 LET ev == thr[t].data.events[thr[t].idx]
                 IN  thr'[t].note_to_pressed_key[ev.note] =
                         KeyForEvent(NoteModeFrom(note_mode), ev.note,
                                     thr[t].data.transpose, octave_shift)]_vars

\* C14 case: one scheduler pressed note 60 under Closest and, after
\* set_note_mode(Raw) and set_octave_shift(3), note 61 under Raw with shift 2
C14_Witness ==
    \E t \in Threads :
        LET r == thr[t]
        IN  /\ r.note_to_pressed_key[60] = KeyForEvent(Closest, 60, r.data.transpose, 0)
            /\ r.note_to_pressed_key[61] = KeyForEvent(Raw, 61, r.data.transpose, 2)
            /\ r.note_to_pressed_key[61] # KeyForEvent(Closest, 61, r.data.transpose, 0)
            /\ note_mode = Raw /\ octave_shift = 2

\* C15: an event with target T (time_ms minus offset) is processed only once
\* the wall-clock time elapsed in the pass minus the accumulated paused duration
\* is at least T, so the time the scheduler spent in its pause loop with
\* is_paused set delays the event by that much.
C15_PausedTimeExcluded ==
    \A t \in Threads :
        thr[t].pc = "process" =>
            /\ thr[t].start_elapsed - thr[t].total_paused_duration >= target_time(thr[t])
            /\ thr[t].start_elapsed >= target_time(thr[t]) + thr[t].paused_wall

\* C15 case: an event with a positive target is about to be processed in a
\* pass that was paused and resumed
C15_Witness ==
    \E t \in Threads :
        /\ thr[t].pc = "process"
        /\ target_time(thr[t]) > 0
        /\ thr[t].total_paused_duration > 0
        /\ thr[t].paused_wall > 0
        /\ ~is_paused

\* The thread at index t has consumed its event list and stands at the end
\* of the pass
AtPassEnd(t) == thr[t].pc = "event_head" /\ thr[t].idx > Len(thr[t].data.events)

\* C16: when a pass reaches the end of the event list with loop on, a new pass
\* starts (after the loop sleep), is_playing is not written and no
\* "playback-ended" is emitted; with loop off the thread leaves the loop,
\* is_playing becomes false and exactly one "playback-ended" is emitted.
C16_PassEnd ==
    [][/\ \A t \in Threads :
             /\ (AtPassEnd(t) /\ Len(thr') = Len(thr) /\ thr'[t] # thr[t]) =>
                    /\ thr'[t].pc = (IF loop_mode THEN "loop_sleep" ELSE "finish")
                    /\ is_playing' = is_playing
                    /\ playback_ended' = playback_ended
             /\ (thr[t].pc = "loop_sleep" /\ Len(thr') = Len(thr)
                    /\ thr'[t].pc # "loop_sleep") =>
                    /\ thr'[t].pc = "event_head"
                    /\ thr'[t].start_elapsed = 0
                    /\ is_playing' = is_playing
                    /\ playback_ended' = playback_ended
             /\ (thr[t].pc = "finish" /\ thr' = Remove(thr, t)) =>
                    /\ ~is_playing'
                    /\ playback_ended' = playback_ended + 1
             /\ (Len(thr') = Len(thr) /\ thr'[t].pc = "finish" /\ thr[t].pc # "finish")
                    => AtPassEnd(t) /\ ~loop_mode
       /\ playback_ended' # playback_ended =>
             \E t \in Threads : thr[t].pc = "finish" /\ thr' = Remove(thr, t)]_vars

\* C16 case: one playback has ended with loop off, and a later one has reached
\* the end of a pass with loop on
C16_Witness ==
    /\ playback_ended = 1
    /\ \E t \in Threads : thr[t].pc = "loop_sleep"

\* The pitches of the NoteOn events of a list, in order
RECURSIVE NoteOnPitches(_)
NoteOnPitches(events) ==
    IF events = << >> THEN << >>
    ELSE (IF Head(events).event_type = "NoteOn" THEN << Head(events).note >> ELSE << >>)
             \o NoteOnPitches(Tail(events))

\* C17: detect_best_transpose returns 0 for an event list whose NoteOn
\* pitches are exactly 60, 62, 64, 65, 67.
C17_OnInstrumentKeepsZero ==
    (probe.fn = "detect_best_transpose" /\ probe.done
        /\ NoteOnPitches(probe.arg) = << 60, 62, 64, 65, 67 >>)
    => probe.out = 0

\* Distance from a pitch (a u8 note plus a candidate in -12..12), folded into
\* the instrument's range, to the nearest instrument note
FoldedDistanceOf ==
    [note \in -12 .. 267 |->
        LET d == {Abs(get_instrument_notes[i] - normalize_into_range(note)) :
                     i \in DOMAIN get_instrument_notes}
        IN  CHOOSE m \in d : \A x \in d : m <= x]
FoldedDistance(note) == FoldedDistanceOf[note]

\* Total folded distance of the NoteOns of a list under candidate s
RECURSIVE FoldedScore(_, _)
FoldedScore(pitches, s) ==
    IF pitches = << >> THEN 0
    ELSE FoldedDistance(Head(pitches) + s) + FoldedScore(Tail(pitches), s)

\* C18: for every event list, the empty one and those without a NoteOn
\* included, detect_best_transpose returns s in -12..12 whose total folded
\* distance is minimal over the 25 candidates, the smallest such s.
C18_BestTransposeIsFirstMinimum ==
    (probe.fn = "detect_best_transpose" /\ probe.done) =>
        LET pitches == NoteOnPitches(probe.arg)
            score == [c \in -12 .. 12 |-> FoldedScore(pitches, c)]
        IN  /\ probe.out \in -12 .. 12
            /\ \A c \in -12 .. 12 :
                  /\ score[probe.out] <= score[c]
                  /\ score[c] = score[probe.out] => probe.out <= c

\* C18 case: a list with NoteOns whose best candidate is neither end of the
\* range nor 0, and the empty list, have been scored
C18_Witness ==
    /\ probe.fn = "detect_best_transpose" /\ probe.done
    /\ NoteOnPitches(probe.arg) # << >>
    /\ probe.out \notin {-12, 0, 12}

\* C19: the raw mapping has period 21 over the integers, negatives included,
\* with the index always in 0..20: raw(n) = raw(n + 21), raw(21) = raw(0),
\* raw(-1) = raw(20).
C19_RawPeriod21 ==
    (probe.fn = "note_to_key_raw" /\ probe.done) =>
        /\ probe.out.key_idx \in 0 .. 20
        /\ probe.out.key = ALL_KEYS[probe.out.key_idx + 1]
        /\ probe.out.key = note_to_key_raw(probe.arg + 21)
        /\ probe.out.key = note_to_key_raw(probe.arg - 21)
        /\ probe.arg = 21 => probe.out.key = note_to_key_raw(0)
        /\ probe.arg = -1 => probe.out.key = note_to_key_raw(20)
        /\ probe.arg \in 0 .. 20 => probe.out.key_idx = probe.arg

\* C19 case: a negative note has been mapped
C19_Witness ==
    probe.fn = "note_to_key_raw" /\ probe.done /\ probe.arg = -1 /\ probe.out.key_idx = 20

\* The events of all tracks of a file, track after track
AllTrackEvents(smf) == Flatten(smf.tracks)
\* NoteOns with a positive velocity in a file
NoteOnCount(smf) ==
    Len(SelectSeq(AllTrackEvents(smf), LAMBDA e : e.kind = "NoteOn" /\ e.vel > 0))
\* Note offs in a file, in either form
NoteOffCount(smf) ==
    Len(SelectSeq(AllTrackEvents(smf),
                  LAMBDA e : e.kind = "NoteOff" \/ (e.kind = "NoteOn" /\ e.vel = 0)))

\* C20: for a file of N NoteOns (velocity > 0) and their N note offs, spread
\* over its tracks, load_midi returns exactly 2N events, N of each type, in
\* ascending order of time_ms.
C20_LoaderCountsAndSorts ==
    (probe.fn = "load_midi" /\ probe.done) =>
        LET events == probe.out.events
            n == NoteOnCount(probe.arg)
        IN  /\ \A i \in 1 .. Len(events) - 1 : events[i].time_ms <= events[i + 1].time_ms
            /\ NoteOffCount(probe.arg) = n =>
                  /\ Len(events) = 2 * n
                  /\ Len(SelectSeq(events, LAMBDA e : e.event_type = "NoteOn")) = n
                  /\ Len(SelectSeq(events, LAMBDA e : e.event_type = "NoteOff")) = n

\* C20 case: two pairs over two tracks whose events in track order (0, 125,
\* 0, 62 ms) are not in time order
C20_Witness ==
    /\ probe.fn = "load_midi" /\ probe.done
    /\ NoteOnCount(probe.arg) = 2 /\ NoteOffCount(probe.arg) = 2
    /\ Len(probe.arg.tracks[1]) = 2 /\ Len(probe.arg.tracks[2]) = 2
    /\ [i \in 1 .. 4 |-> probe.out.events[i].time_ms] = << 0, 0, 62, 125 >>
    /\ [i \in 1 .. 4 |-> probe.out.events[i].event_type]
          = << "NoteOn", "NoteOn", "NoteOff", "NoteOff" >>

\* The tempo in force during the tick interval [k, k + 1): that of the last
\* change of the map at or before k, the default when there is none
TempoDuring(changes, k) ==
    LET before == {i \in DOMAIN changes : changes[i].tick <= k}
    IN  IF before = {} THEN 500000
        ELSE changes[CHOOSE i \in before : \A j \in before : j <= i].tempo

\* Microseconds-per-quarter summed over the tick intervals below t
RECURSIVE TempoSum(_, _)
TempoSum(changes, t) ==
    IF t = 0 THEN 0 ELSE TempoSum(changes, t - 1) + TempoDuring(changes, t - 1)

\* C21: ticks_to_ms is non-decreasing in the tick for any tempo map sorted by
\* tick; the default tempo of 500000 us per quarter applies before the first
\* change, and a change at tick c affects only the ticks after c.
C21_TicksToMsMonotone ==
    (probe.fn = "ticks_to_ms" /\ probe.done) =>
        /\ probe.out.ms1 <= probe.out.ms2
        /\ probe.out.ms1 = TempoSum(probe.arg.changes, probe.arg.t1) \div (512 * 1000)
        /\ probe.out.ms2 = TempoSum(probe.arg.changes, probe.arg.t2) \div (512 * 1000)

\* C21 case: two ticks on either side of a change to a faster tempo that
\* follows a change to a slower one
C21_Witness ==
    /\ probe.fn = "ticks_to_ms" /\ probe.done
    /\ Len(probe.arg.changes) = 2
    /\ probe.arg.changes[1] = [tick |-> 8, tempo |-> 1024000]
    /\ probe.arg.changes[2] = [tick |-> 16, tempo |-> 250000]
    /\ probe.arg.t1 = 16 /\ probe.arg.t2 = 24
    /\ probe.out.ms1 < probe.out.ms2

\* C22: no two calls into enigo.key, from key_down or key_up, are in progress
\* at once, whichever threads make them: a thread inside one holds the mutex.
C22_KeyCallsSerialized ==
    /\ Cardinality({c \in Callers : enigo.pc[c] = "in_enigo"}) <= 1
    /\ \A c \in Callers : enigo.pc[c] \in {"locked", "in_enigo", "unlock"}
                              => enigo.holder = c

\* C22 case: one thread is inside enigo.key while another has made a call
\* and is about to make its next one
C22_Witness ==
    \E c, d \in Callers :
        /\ c # d
        /\ enigo.pc[c] = "in_enigo"
        /\ enigo.pc[d] = "out" /\ enigo.made[d] = 1 /\ enigo.made[d] < MaxKeyCalls

\* C23: seek(S) issued while playing and paused returns with the transport
\* paused (is_playing and is_paused both true), seek offset S, position S,
\* and a scheduler on a pass at offset S.
C23_PausedSeekStaysPaused ==
    [][SeekRepause =>
          /\ is_playing' /\ is_paused'
          /\ seek_offset' = ctl.position
          /\ current_position' = ctl.position
          /\ \E t \in DOMAIN thr' :
                \/ thr'[t].pc = "start"
                \/ thr'[t].pc \in InPassPcs /\ thr'[t].offset_ms = SecsToMsU64(ctl.position)]_vars

\* C24 as stated: a pass after the first starts at the first event of the
\* list, whatever the offset the thread was started with.
C24_LaterPassesFromFirstEvent ==
    [][\A t \in Threads : LoopWake(t) => thr'[t].idx = 1]_vars

\* C24 amended: in every pass, the first and the later ones alike, the event
\* a thread has in hand is not before the offset the thread read when it
\* started.
C24_EveryPassHonorsOffset ==
    \A t \in Threads :
        (thr[t].pc \in InPassPcs /\ thr[t].idx <= Len(thr[t].data.events))
            => thr[t].data.events[thr[t].idx].time_ms >= thr[t].offset_ms

\* C24 case: a thread started at a non-zero offset is in a later pass and has
\* gone past events that lie before the offset
C24_Witness ==
    \E t \in Threads :
        /\ thr[t].looped
        /\ thr[t].pc = "process"
        /\ thr[t].offset_ms > 0
        /\ thr[t].idx > 1
        /\ thr[t].data.events[1].time_ms < thr[t].offset_ms

\* The total shift of a probed event and its pitch after the shift
ProbeTotal == probe.arg.transpose + 12 * probe.arg.octave_shift
ProbeTarget == probe.arg.note + ProbeTotal
MapDone == probe.fn = "key_for_event" /\ probe.done

\* C25: Quantize and Closest give the same key for every pitch and every
\* total shift, ties between two instrument notes included.
C25_QuantizeIsClosest == MapDone => probe.out[Quantize] = probe.out[Closest]

\* C25 case: a shifted pitch outside the instrument range that, once folded,
\* lies midway between two instrument notes (97 folds to 73, between 72 and 74)
C25_Witness ==
    /\ MapDone
    /\ ProbeTarget = 97
    /\ probe.out[Quantize] = "q"

\* Independent reading of the layout: the semitone above the root of a
\* folded pitch, the row of a folded pitch, and the slot of a natural
FoldedTarget == normalize_into_range(ProbeTarget)
FoldedSemitone == (FoldedTarget - ROOT_NOTE) % 12
RowOfFolded == IF FoldedTarget < ROOT_NOTE THEN LOW_KEYS
               ELSE IF FoldedTarget < ROOT_NOTE + 12 THEN MID_KEYS ELSE HIGH_KEYS
Naturals == {SCALE_INTERVALS[i] : i \in 1 .. 7}
SlotOfNatural(n) == CHOOSE i \in 0 .. 6 : SCALE_INTERVALS[i + 1] = n
NaturalBelow(semi) == CHOOSE n \in Naturals :
                          n <= semi /\ \A k \in Naturals : k <= semi => k <= n
NaturalAbove(semi) == CHOOSE n \in Naturals :
                          n >= semi /\ \A k \in Naturals : k >= semi => k >= n

\* C26 as stated: in Chromatic mode every semitone that is not a natural
\* (1, 3, 6, 8, 10) takes the slot of the natural immediately below it, and
\* every natural its own slot.
C26_ChromaticRoundsDown ==
    MapDone => probe.out[Chromatic] = RowOfFolded[SlotOfNatural(NaturalBelow(FoldedSemitone)) + 1]

\* C26 amended: the semitones 1, 6 and 8 take the slot of the natural
\* immediately below them, the semitones 3 and 10 the slot of the natural
\* immediately above them, and every natural its own slot.
C26_ChromaticTable ==
    MapDone => probe.out[Chromatic] =
                  RowOfFolded[SlotOfNatural(IF FoldedSemitone \in {3, 10}
                                            THEN NaturalAbove(FoldedSemitone)
                                            ELSE NaturalBelow(FoldedSemitone)) + 1]

\* C26 case: a pitch played a minor third above the root in the low row
C26_Witness ==
    /\ MapDone
    /\ FoldedTarget = ROOT_NOTE - 12 + 3
    /\ probe.out[Chromatic] = "c"

\* C27: in TransposeOnly mode the slot is floor(semitone * 7 / 12), where
\* semitone is (pitch + shift - root) mod 12 in 0..11, and the row comes from
\* floor((pitch + shift - root) / 12), clamped to the three rows.
C27_TransposeRowIsFloor ==
    MapDone =>
        LET semitone == (ProbeTarget - ROOT_NOTE) % 12
            row == Clamp(1 + ((ProbeTarget - ROOT_NOTE) \div 12), 0, 2)
        IN  probe.out[TransposeOnly] = RowKey(row, (semitone * 7) \div 12)

\* Circular distance between two semitones of the octave
CircularDistance(a, b) == Min2((a - b) % 12, (b - a) % 12)

\* C28: in Pentatonic mode the key is in slot 0, 1, 2, 4 or 5; the slot is
\* that of an interval of {0, 2, 4, 7, 9} at minimal circular distance from
\* the semitone of the folded pitch; the row is the octave of the folded pitch.
C28_PentatonicNearest ==
    MapDone =>
        \E i \in 1 .. 5 :
            /\ PENTA_KEY_IDX[i] \in {0, 1, 2, 4, 5}
            /\ probe.out[Pentatonic] = RowOfFolded[PENTA_KEY_IDX[i] + 1]
            /\ \A j \in 1 .. 5 :
                  CircularDistance(PENTA_INTERVALS[i], FoldedSemitone)
                      <= CircularDistance(PENTA_INTERVALS[j], FoldedSemitone)

\* C28 case: the seventh of the top octave, whose nearest interval is the
\* root reached around the octave: slot 0 of the high row
C28_Witness ==
    /\ MapDone
    /\ FoldedTarget = ROOT_NOTE + 12 + 11
    /\ probe.out[Pentatonic] = "q"

\* C29: the key of Raw mode does not depend on the auto-detected transpose:
\* it is the same for every transpose, given the pitch and the octave shift.
C29_RawIgnoresAutoTranspose ==
    MapDone =>
        \A transpose \in Transposes :
            KeyForEvent(Raw, probe.arg.note, transpose, probe.arg.octave_shift)
                = probe.out[Raw]

\* C29 case: a score with a non-zero auto-detected transpose and a manual
\* shift, where the other direct mode does follow the transpose
C29_Witness ==
    /\ MapDone
    /\ probe.arg.transpose = 5
    /\ probe.arg.octave_shift = -1
    /\ probe.out[TransposeOnly] #
           KeyForEvent(TransposeOnly, probe.arg.note, 0, probe.arg.octave_shift)

\* C30: for every pitch 0..127, transpose -12..12 and octave shift -2..2,
\* each of the six modes returns one of the 21 keys, and string_to_key
\* recognises it.
C30_EveryModeTotal ==
    /\ Cardinality(Keys) = 21
    /\ MapDone =>
          \A m \in NoteModes :
              /\ probe.out[m] \in Keys
              /\ string_to_key(probe.out[m]) # "None"

\* C30 case: the lowest pitch under the lowest shifts, a negative argument
\* of every mode
C30_Witness ==
    /\ MapDone
    /\ probe.arg.note = 0 /\ probe.arg.transpose = -12 /\ probe.arg.octave_shift = -2
    /\ probe.out[Raw] = "t"
    /\ probe.out[TransposeOnly] = "z"

\* The note-on messages of a file, as (track, position) pairs
NoteOnMessages(smf) ==
    {p \in {<< n, i >> : n \in DOMAIN smf.tracks, i \in 1 .. MaxTrackLen + 1} :
        /\ p[2] <= Len(smf.tracks[p[1]])
        /\ smf.tracks[p[1]][p[2]].kind = "NoteOn"}

\* C31: load_midi turns a note-on message with velocity 0 into a NoteOff and
\* one with a positive velocity into a NoteOn, at the pitch and the time of
\* the message; a file that holds only note-on messages yields as many
\* NoteOffs as it has messages of velocity 0.
C31_ZeroVelocityIsNoteOff ==
    (probe.fn = "load_midi" /\ probe.done) =>
        LET smf == probe.arg
            events == probe.out.events
            changes == tempo_changes(smf.tracks)
            timeOf(p) == ticks_to_ms(changes, smf.tpq, TrackTimeTicks(smf.tracks[p[1]], p[2]))
            msg(p) == smf.tracks[p[1]][p[2]]
            zero == {p \in NoteOnMessages(smf) : msg(p).vel = 0}
        IN  /\ \A p \in NoteOnMessages(smf) :
                  \E k \in DOMAIN events :
                      /\ events[k].note = msg(p).key
                      /\ events[k].time_ms = timeOf(p)
                      /\ events[k].event_type = IF msg(p).vel = 0 THEN "NoteOff" ELSE "NoteOn"
            /\ (\A e \in Range(AllTrackEvents(smf)) : e.kind # "NoteOff") =>
                  /\ Len(events) = Cardinality(NoteOnMessages(smf))
                  /\ Len(SelectSeq(events, LAMBDA e : e.event_type = "NoteOff"))
                        = Cardinality(zero)

\* C31 case: a track of a NoteOn with velocity 64 at tick 0 followed, 64
\* ticks later, by a NoteOn with velocity 0 of the same pitch
C31_Witness ==
    /\ probe.fn = "load_midi" /\ probe.done
    /\ probe.arg.tracks = << << TrackEv(0, "NoteOn", 60, 64, 0),
                                TrackEv(64, "NoteOn", 60, 0, 0) >>, << >> >>
    /\ probe.out.events = << Ev(0, "NoteOn", 60), Ev(62, "NoteOff", 60) >>

\* Every pass in progress is still within the time the model follows a pass
WithinWall ==
    \A t \in Threads :
        thr[t].pc \in {"wait_sleep", "pause_sleep"} => thr[t].start_elapsed + TickMs <= MaxWallMs

\* C32: within a pass every step that processes an event moves on to a later
\* event and passes over only events before the offset, so the events that
\* are not skipped are processed in list order, each once; and (with loop
\* off and no stop flag set while a thread runs) if every pause is ended
\* again, a running scheduler ends with no thread left and is_playing false.
C32_InOrderOnceThenEnds ==
    /\ [][\A t \in Threads :
            Process(t) =>
                /\ thr'[t].idx > thr[t].idx
                /\ \A j \in thr[t].idx + 1 .. thr'[t].idx - 1 :
                      thr[t].data.events[j].time_ms < thr[t].offset_ms]_vars
    /\ ([]<>~is_paused /\ []<>WithinWall)
          => (thr # << >> ~> (thr = << >> /\ ~is_playing))

\* C32 case: a pass that was paused and resumed is at its last event
C32_Witness ==
    \E t \in Threads :
        /\ thr[t].pc = "process"
        /\ thr[t].idx = Len(thr[t].data.events)
        /\ thr[t].total_paused_duration > 0
        /\ ~loop_mode /\ is_playing /\ ~is_paused

\* C33: a scheduler thread that a call of stop_playback found waiting for an
\* event, polling in pause or asleep between two passes processes no further
\* event, whatever is issued afterwards.
C33_StoppedThreadProcessesNothing ==
    [][\A t \in Threads : Process(t) => thr[t].stop_called = "none"]_vars

\* C34: in every reachable state of the transport is_paused implies
\* is_playing, whatever the interleaving of pause_resume, seek, stop and the
\* natural end of a scheduler.
C34_PausedImpliesPlaying == is_paused => is_playing

\* C35: the scheduler calls key_down only while is_paused is false, and not
\* while a seek issued in pause is still on its way back to the paused state
\* (between its stop_playback and its final is_paused.store(true)).
C35_NoKeyDownWhilePaused ==
    [][\A t \in Threads :
          (Process(t) /\ thr'[t].down \ thr[t].down # {})
              => /\ ~is_paused
                 /\ ~(ctl.cont = "seek_paused" /\ ctl.pc # "idle")]_vars

\* C36: the final is_playing.store(false) of a scheduler is never executed
\* while a scheduler spawned after it (by a later play or seek, which stored
\* is_playing = true for it) is alive.
C36_OldThreadNeverCancelsNewer ==
    [][\A t \in Threads : Finish(t) => t = Len(thr)]_vars

\* C37: "playback-ended" is emitted only by a thread that has left the loop
\* at the end of the event list with loop mode off; a thread that returns on
\* the stop flag emits nothing; the thread that emits is gone with the same
\* step, so that no thread emits twice.
C37_EndedOnlyOnNaturalEnd ==
    [][/\ \A t \in Threads :
             /\ (thr' = Remove(thr, t) /\ thr[t].pc # "finish") =>
                    /\ ~is_playing
                    /\ playback_ended' = playback_ended
             /\ (Len(thr') = Len(thr) /\ thr'[t].pc = "finish" /\ thr[t].pc # "finish") =>
                    /\ thr[t].pc = "event_head"
                    /\ thr[t].idx = Len(thr[t].data.events) + 1
                    /\ ~loop_mode
       /\ playback_ended' # playback_ended =>
             /\ playback_ended' = playback_ended + 1
             /\ Len(thr') = Len(thr) - 1
             /\ \E t \in Threads :
                   /\ thr[t].pc = "finish"
                   /\ thr[t].idx = Len(thr[t].data.events) + 1
                   /\ thr' = Remove(thr, t)]_vars

\* C37 case: one playback has run off its end and emitted, and the thread of a
\* later one has returned on the flag of a stop command, which emitted nothing
C37_Witness ==
    /\ playback_ended = 1
    /\ thr = << >>
    /\ ctl.pc = "stop_done" /\ ctl.cont = "stop" /\ ctl.was_playing
    /\ calls >= 5

\* The distance of a folded note to the nearest instrument note, as the scoring
\* loop computes it, is the same for a pitch and the pitch an octave above:
\* every u8 pitch under every candidate s and s + 12
OctaveApartSameDistance ==
    \A note \in 0 .. 255 : \A s \in -12 .. 0 :
        MinDistance(normalize_into_range(note + s), 1, I32_MAX)
            = MinDistance(normalize_into_range(note + s + 12), 1, I32_MAX)

\* C38: in detect_best_transpose the score of candidate s equals the score of
\* s + 12, for every s in -12..0 and every event list, because the distance of
\* a folded note to the nearest instrument note depends on its pitch class
\* only; hence the candidate returned lies in -12..-1.
C38_ScoreHasPeriod12 ==
    (probe.fn = "detect_best_transpose" /\ probe.done) =>
        /\ OctaveApartSameDistance
        /\ \A s \in -12 .. 0 :
              TransposeScore(probe.arg, s, 1) = TransposeScore(probe.arg, s + 12, 1)
        /\ probe.out \in -12 .. -1

\* C38 case: a list with a NoteOn inside the range and one above it, whose
\* first best candidate is -8 (and 4, an octave above, scores the same)
C38_Witness ==
    /\ probe.fn = "detect_best_transpose" /\ probe.done
    /\ NoteOnPitches(probe.arg) = << 61, 127 >>
    /\ probe.out = -8
    /\ TransposeScore(probe.arg, 4, 1) = TransposeScore(probe.arg, -8, 1)

====
